---- MODULE Spec2Model ----
(***************************************************************************)
(* Model of hmi::GatewayClient (src/src/core/GatewayClient.cpp): the       *)
(* asynchronous gRPC gateway client.  One calling thread (the Qt main      *)
(* thread, which is also the consumer of queued notifications) invokes the *)
(* public slots; one-shot workers, the three streaming threads and the     *)
(* connection monitor run concurrently with it.                            *)
(***************************************************************************)
EXTENDS Integers, Sequences, FiniteSets, TLC

\* ------------------------------------------------------------------ bounds
MaxCalls      == 2   \* one-shot invocations (SpecCalls)
MaxUploads    == 1   \* uploadCad invocations (SpecUpload)
MaxItems      == 2   \* messages a server sends on one stream
MaxFlips      == 2   \* transport connectivity changes
MaxShortReads == 1   \* file reads of one upload that return fewer bytes than asked
MaxSubOps     == 2   \* subscription slot invocations (SpecSubs)
MaxTeardownOps == 2  \* slot invocations (SpecSessions, SpecTeardown)
MaxConnOps    == 3   \* connect and disconnect invocations (SpecConnection)
MaxThreadOps  == 2   \* slot invocations of the two calling threads (SpecThreads)
MaxStopOps    == 3   \* slot invocations (SpecStop)
MaxMutexOps   == 2   \* slot invocations (SpecMutex)
MaxPlanCalls  == 3   \* client calls the plan requests make (SpecPlan)
MaxLifeOps    == 3   \* slot invocations (SpecLifecycle)

\* --------------------------------------------------------- program constants
CHUNK_SIZE == 65536

\* ------------------------------------------------------------- input sets
Addresses == {"gw:50051", "backup:50051"}

\* The address argument of the constructor (empty: no connection is made).
ConstructorAddresses == {"", "gw:50051"}
\* Sizes of the files handed to uploadCad; Unopenable stands for a path that
\* QFile::open rejects.
FileSizes == {0, 1, 65536, 150000}
\* Files of SpecCalls, which is not about the chunk loop: a path that cannot be
\* opened, an empty file, a file of one byte.
CallsFiles == {[openable |-> FALSE, size |-> 0], [openable |-> TRUE, size |-> 0],
               [openable |-> TRUE, size |-> 1]}
Files == [openable : {TRUE}, size : FileSizes] \cup {[openable |-> FALSE, size |-> 0]}
\* A short read returns this many bytes.
ShortReadSizes == {1}
\* The bytes of the n-th chunk a media server sends.
ChunkData(n) == IF n % 2 = 1 THEN <<n>> ELSE <<n, n>>

\* Stream kinds, in the order stopSubscriptions joins them.
Kinds == <<"sysState", "events", "download">>
KindSet == {"sysState", "events", "download"}

TrackedUnaryOps == {"setInspectionTargets", "planInspection", "getPlan",
                    "startInspection", "getTaskStatus", "getNavMap", "listCaptures"}
ControlOps == {"pauseInspection", "resumeInspection", "stopInspection"}
UploadOp == "uploadCad"
OneShotOps == TrackedUnaryOps \cup ControlOps \cup {UploadOp}

\* grpc::Status values a call can end with: [code, msg].
StatusOK == [code |-> "OK", msg |-> ""]
StatusCancelled == [code |-> "CANCELLED", msg |-> "Cancelled"]
TransportFailures == {[code |-> "DEADLINE_EXCEEDED", msg |-> "Deadline Exceeded"],
                      [code |-> "UNAVAILABLE", msg |-> "failed to connect"]}
\* Statuses a server-streaming call can end with when the client has not cancelled.
StreamEndStatuses == {StatusOK, StatusCancelled,
                      [code |-> "UNAVAILABLE", msg |-> "failed to connect"]}

\* proto::Result values a server answers with, and the payload that goes with it.
ServerResults == {[code |-> "OK", message |-> "", payload |-> "data"],
                  [code |-> "BUSY", message |-> "robot busy", payload |-> "zero"]}

\* ------------------------------------------------------ result marshalling
\* Wire enum values are named as in the proto file; a value the client's
\* generated code has no name for is an element of UnknownWireValues.
UnknownWireValues == {"UNSPECIFIED", "UNRECOGNIZED_9", "UNRECOGNIZED_NEG_1"}
WireErrorCodes == {"OK", "INVALID_ARGUMENT", "NOT_FOUND", "TIMEOUT", "BUSY", "INTERNAL",
                   "UNAVAILABLE", "CONFLICT"}
WireTaskPhases == {"IDLE", "LOCALIZING", "PLANNING", "EXECUTING", "PAUSED", "COMPLETED",
                   "FAILED", "STOPPED"}
WireEventTypes == {"INFO", "WARN", "ERROR", "CAPTURED", "DEFECT_FOUND"}

\* google.protobuf.Timestamp values: seconds since the epoch and nanoseconds.
WireSeconds == {-86400, -1, 0, 1, 2, 59, 86400, 1700000}
WireNanos == {0, 1, 999999999}
WireTimestamps == [seconds : WireSeconds, nanos : WireNanos]

\* A QDateTime: a default-constructed one is null; a set one holds
\* milliseconds since the epoch.
NullDateTime == [valid |-> FALSE, msecs |-> 0]
MSECS_PER_SEC == 1000
setSecsSinceEpoch(secs) == [valid |-> TRUE, msecs |-> secs * MSECS_PER_SEC]

\* Faulty variant: every wire timestamp becomes an instant, the zero one too.
fromTimestampAlwaysSet(ts) == setSecsSinceEpoch(ts.seconds)

fromTimestamp(ts) ==
    IF ts.seconds = 0 /\ ts.nanos = 0
    THEN NullDateTime
    ELSE setSecsSinceEpoch(ts.seconds)

fromProtoTaskPhase(ph) ==
    CASE ph = "IDLE"       -> "Idle"
      [] ph = "LOCALIZING" -> "Localizing"
      [] ph = "PLANNING"   -> "Planning"
      [] ph = "EXECUTING"  -> "Executing"
      [] ph = "PAUSED"     -> "Paused"
      [] ph = "COMPLETED"  -> "Completed"
      [] ph = "FAILED"     -> "Failed"
      [] ph = "STOPPED"    -> "Stopped"
      [] OTHER             -> "Unspecified"

\* Faulty variant: ERROR events are not told apart from warnings.
fromProtoEventTypeErrorAsWarn(et) ==
    CASE et = "INFO"         -> "Info"
      [] et = "WARN"         -> "Warn"
      [] et = "ERROR"        -> "Warn"
      [] et = "CAPTURED"     -> "Captured"
      [] et = "DEFECT_FOUND" -> "DefectFound"
      [] OTHER               -> "Unspecified"

fromProtoEventType(et) ==
    CASE et = "INFO"         -> "Info"
      [] et = "WARN"         -> "Warn"
      [] et = "ERROR"        -> "Error"
      [] et = "CAPTURED"     -> "Captured"
      [] et = "DEFECT_FOUND" -> "DefectFound"
      [] OTHER               -> "Unspecified"

fromProtoError(ec) ==
    CASE ec = "OK"               -> "Ok"
      [] ec = "INVALID_ARGUMENT" -> "InvalidArgument"
      [] ec = "NOT_FOUND"        -> "NotFound"
      [] ec = "TIMEOUT"          -> "Timeout"
      [] ec = "BUSY"             -> "Busy"
      [] ec = "INTERNAL"         -> "Internal"
      [] ec = "UNAVAILABLE"      -> "Unavailable"
      [] ec = "CONFLICT"         -> "Conflict"
      [] OTHER                   -> "Unspecified"

fromProtoResult(r) == [code |-> fromProtoError(r.code), message |-> <<r.message>>]

\* Faulty variant: a transport failure folded into Unavailable.
fromGrpcStatusUnavailable(st) ==
    IF st.code = "OK" THEN [code |-> "Ok", message |-> <<>>]
    ELSE [code |-> "Unavailable", message |-> <<st.msg>>]

fromGrpcStatus(st) ==
    IF st.code = "OK" THEN [code |-> "Ok", message |-> <<>>]
    ELSE [code |-> "Internal", message |-> <<st.msg>>]

\* ----------------------------------------------------------- notifications
\* One queued invocation: the signal, who posted it, the Result (code "none"
\* when the signal carries no Result), the payload class, a number (percent,
\* item index) and bytes.
Note(sig, src, code, msg, payload, n, data) ==
    [sig |-> sig, src |-> src, code |-> code, msg |-> msg,
     payload |-> payload, n |-> n, data |-> data]

CallSrc(id)  == [t |-> "call", k |-> "", id |-> id]
SubSrc(k, g) == [t |-> "sub", k |-> k, id |-> g]
MonSrc(m)    == [t |-> "monitor", k |-> "", id |-> m]
ClientSrc    == [t |-> "client", k |-> "", id |-> 0]

\* The completion signal of each one-shot operation.
FinishedSignal(op) ==
    CASE op = "uploadCad"            -> "uploadCadFinished"
      [] op = "setInspectionTargets" -> "setTargetsFinished"
      [] op = "planInspection"       -> "planInspectionFinished"
      [] op = "getPlan"              -> "getPlanFinished"
      [] op = "startInspection"      -> "startInspectionFinished"
      [] op \in ControlOps           -> "controlTaskFinished"
      [] op = "getTaskStatus"        -> "taskStatusReceived"
      [] op = "getNavMap"            -> "navMapReceived"
      [] op = "listCaptures"         -> "capturesReceived"

\* Faulty variant: an event put at the front of the queue.
PostFront(q, n) == <<n>> \o q

\* QMetaObject::invokeMethod(this, f, Qt::QueuedConnection): the event is
\* appended to the receiver thread's event queue.
Post(q, n) == Append(q, n)

\* What a dispatcher posts when it finds no stub.
NoSessionOutcome(op, id) ==
    IF op = "getTaskStatus"
    THEN Note("errorOccurred", CallSrc(id), "none",
              <<"GetTaskStatus: not connected">>, "none", 0, <<>>)
    ELSE Note(FinishedSignal(op), CallSrc(id), "Unavailable",
              <<"Not connected">>, "zero", 0, <<>>)

\* What a unary worker posts for the call's status st and the server's answer r.
UnaryOutcome(op, id, st, r) ==
    IF op = "getTaskStatus"
    THEN IF st.code # "OK"
         THEN Note("errorOccurred", CallSrc(id), "none",
                   <<"GetTaskStatus: ", st.msg>>, "none", 0, <<>>)
         ELSE Note("taskStatusReceived", CallSrc(id), "none", <<>>, "data", 0, <<>>)
    ELSE IF st.code = "OK"
         THEN Note(FinishedSignal(op), CallSrc(id), fromProtoResult(r).code,
                   fromProtoResult(r).message, r.payload, 0, <<>>)
         ELSE Note(FinishedSignal(op), CallSrc(id), fromGrpcStatus(st).code,
                   fromGrpcStatus(st).message, "zero", 0, <<>>)

\* ------------------------------------------------------------------- state
VARIABLES
    caller,               \* position of the calling thread inside a public slot
    opsLeft,              \* public slot invocations the calling thread still makes
    m_stub, m_channel,    \* session id, 0 = null
    m_address,
    m_connected, m_stopMonitor,
    m_connMonitorThread,  \* index into monitors, 0 = not joinable
    monitors,             \* monitor threads ever started
    m_workers,            \* ids of tracked one-shot threads
    calls,                \* one record per one-shot invocation
    m_subThread,          \* per kind: index into subs[k], 0 = not joinable
    m_subCtx,             \* per kind: index into ctxs[k], 0 = null
    ctxs,                 \* per kind: the ClientContexts ever created (cancelled?)
    subs,                 \* per kind: the streaming threads ever started
    sessions,             \* number of sessions ever created
    chanReady, flips,     \* transport state of the current channel
    queue, delivered,     \* the consumer's event queue, and what it has processed
    crashed,              \* the process has been terminated
    parked,               \* a second calling thread's position, while it is not running
    conv,                 \* the message value a marshalling helper is applied to
    mx                    \* who holds m_mutex, and where each thread stands in its code

vars == <<caller, opsLeft, m_stub, m_channel, m_address, m_connected, m_stopMonitor,
          m_connMonitorThread, monitors, m_workers, calls, m_subThread, m_subCtx,
          ctxs, subs, sessions, chanReady, flips, queue, delivered, crashed,
          parked, conv, mx>>

connVars == <<m_stub, m_channel, m_address, sessions>>
subVars  == <<m_subThread, m_subCtx, ctxs, subs>>
monVars  == <<m_connected, m_stopMonitor, m_connMonitorThread, monitors>>
envVars  == <<chanReady, flips>>
auxVars  == <<parked, conv, mx>>

NewMonitor == [pc |-> "run", lastReady |-> FALSE]

Idle == [pc |-> "idle", op |-> "", k |-> 0, id |-> 0, addr |-> "", tmp |-> <<>>]

\* m_mutex and the threads that take it. Each thread stands at one operation
\* of the function it runs (at.i indexes the function's operations, in program
\* order; past the last one the thread has returned or ended).
MutexThreads == {"caller", "worker", "stream", "monitor"}
MutexFree == [holder |-> "none", ops |-> 0,
              at |-> [t \in MutexThreads |-> [fn |-> "none", i |-> 1]]]

\* No message is being unmarshalled.
NoConversion == [kind |-> "", wire |-> <<>>, domain |-> <<>>]

\* Every notification ever posted, in posting order.
posted == delivered \o queue

\* The state the constructor leaves: GatewayClient(address) connects when the
\* address is not empty (disconnectFromGateway on the fresh object changes
\* nothing, then the session is installed and the monitor started).
ConstructedClient(budget) ==
    /\ caller = Idle
    /\ opsLeft = budget
    /\ \E a \in ConstructorAddresses :
         /\ m_address = a
         /\ m_stub = IF a = "" THEN 0 ELSE 1
         /\ m_channel = IF a = "" THEN 0 ELSE 1
         /\ sessions = IF a = "" THEN 0 ELSE 1
         /\ m_connMonitorThread = IF a = "" THEN 0 ELSE 1
         /\ monitors = IF a = "" THEN <<>> ELSE <<NewMonitor>>
         /\ m_stopMonitor = FALSE
    /\ m_connected = FALSE
    /\ m_workers = <<>>
    /\ calls = <<>>
    /\ m_subThread = [k \in KindSet |-> 0]
    /\ m_subCtx = [k \in KindSet |-> 0]
    /\ ctxs = [k \in KindSet |-> <<>>]
    /\ subs = [k \in KindSet |-> <<>>]
    /\ chanReady = FALSE
    /\ flips = 0
    /\ queue = <<>>
    /\ delivered = <<>>
    /\ crashed = FALSE
    /\ parked = Idle
    /\ mx = MutexFree

Constructed(budget) == ConstructedClient(budget) /\ conv = NoConversion

\* ----------------------------------------------------------- one-shot calls
\* thread: "none" (no thread was created), "joinable", "joined", "detached".
\* how: what ended the worker, "rpc" (the call returned, with status st and
\* the server's result res), "write" (a chunk could not be written), "nofile".
NewCall(op, pc, stub, thread, file) ==
    [op |-> op, pc |-> pc, stub |-> stub, thread |-> thread, net |-> FALSE,
     file |-> file, totalBytes |-> 0, bytesSent |-> 0, chunkIndex |-> 0,
     lastPercent |-> -1, shortReads |-> 0, readFailed |-> FALSE, written |-> <<>>,
     how |-> "", st |-> StatusOK, res |-> [code |-> "", message |-> "", payload |-> ""]]

NoFile == [openable |-> FALSE, size |-> 0]

\* A raw stub pointer captured by a thread is usable while the stub it points
\* to is still the one m_stub owns.
StubValid(s) == s # 0 /\ s = m_stub

\* std::remove_if(..., !t.joinable()) over m_workers.
reapFinishedWorkers(workers) ==
    SelectSeq(workers, LAMBDA w : calls[w].thread = "joinable")

CanInvoke == ~crashed /\ caller.pc = "idle" /\ opsLeft > 0

\* Faulty variant: a dispatcher that does not test the stub it read.
HasStubUnchecked(stub) == TRUE

\* The dispatcher's test of the stub it read under the mutex.
HasStub(stub) == stub # 0

\* uploadCad, setInspectionTargets, planInspection, getPlan, startInspection,
\* getTaskStatus, getNavMap, listCaptures: read the stub; without one post the
\* outcome and return, otherwise start the worker thread (it runs from now on)
\* and go on to register it.
DispatchTracked(op, file) ==
    /\ CanInvoke
    /\ opsLeft' = opsLeft - 1
    /\ LET id == Len(calls) + 1 IN
         IF ~HasStub(m_stub)
         THEN /\ calls' = Append(calls, NewCall(op, "nosession", 0, "none", file))
              /\ queue' = Post(queue, NoSessionOutcome(op, id))
              /\ UNCHANGED caller
         ELSE /\ calls' = Append(calls, NewCall(op, "spawned", m_stub, "joinable", file))
              /\ caller' = [Idle EXCEPT !.pc = "register", !.op = op, !.id = id]
              /\ UNCHANGED queue
    /\ UNCHANGED <<auxVars, connVars, subVars, monVars, envVars, m_workers, delivered, crashed>>

DispatchUnary(ops) == \E op \in ops : DispatchTracked(op, NoFile)

DispatchUpload(files) == \E f \in files : DispatchTracked(UploadOp, f)

\* The tail of every tracked dispatcher: reapFinishedWorkers, push_back.
RegisterWorker ==
    /\ ~crashed
    /\ caller.pc = "register"
    /\ m_workers' = Append(reapFinishedWorkers(m_workers), caller.id)
    /\ caller' = Idle
    /\ UNCHANGED <<auxVars, opsLeft, connVars, subVars, monVars, envVars, calls, queue,
                   delivered, crashed>>

\* pauseInspection, resumeInspection, stopInspection: runControlRpc starts
\* the worker and detaches it.
DispatchControl(ops) ==
    /\ CanInvoke
    /\ opsLeft' = opsLeft - 1
    /\ \E op \in ops :
         LET id == Len(calls) + 1 IN
         IF ~HasStub(m_stub)
         THEN /\ calls' = Append(calls, NewCall(op, "nosession", 0, "none", NoFile))
              /\ queue' = Post(queue, NoSessionOutcome(op, id))
         ELSE /\ calls' = Append(calls, NewCall(op, "spawned", m_stub, "detached", NoFile))
              /\ UNCHANGED queue
    /\ UNCHANGED <<auxVars, caller, connVars, subVars, monVars, envVars, m_workers, delivered,
                   crashed>>

\* A step of a thread through a stub pointer whose stub has been destroyed (or
\* that is null) is undefined: it may behave as if the stub were alive, or
\* bring the process down.
Crash ==
    /\ crashed' = TRUE
    /\ UNCHANGED <<auxVars, caller, opsLeft, connVars, subVars, monVars, envVars, m_workers,
                   calls, queue, delivered>>

\* Body of a unary worker (tracked or control): the blocking call with its
\* deadline, then the outcome is posted.
WorkerRun(id) ==
    /\ ~crashed
    /\ calls[id].pc = "spawned"
    /\ calls[id].op # UploadOp
    /\ \E st \in {StatusOK} \cup TransportFailures, r \in ServerResults :
         /\ queue' = Post(queue, UnaryOutcome(calls[id].op, id, st, r))
         /\ calls' = [calls EXCEPT ![id].pc = "done", ![id].net = TRUE,
                                   ![id].how = "rpc", ![id].st = st,
                                   ![id].res = IF st.code = "OK" THEN r ELSE @]
    /\ UNCHANGED <<auxVars, caller, opsLeft, connVars, subVars, monVars, envVars,
                   m_workers, delivered, crashed>>

\* A worker that has not made its call yet and whose stub pointer dangles: the
\* call through it is undefined behaviour, and besides behaving as WorkerRun
\* or UploadOpen it may bring the process down.
DanglingStubUse(id) ==
    /\ ~crashed
    /\ calls[id].pc = "spawned"
    /\ ~StubValid(calls[id].stub)
    /\ Crash

\* ------------------------------------------------------------------ upload
Min(a, b) == IF a < b THEN a ELSE b

\* Sizes file.read(CHUNK_SIZE) may return with `left` bytes left: the full
\* chunk, or a short read.
ReadSizes(c) ==
    LET left == c.totalBytes - c.bytesSent
        full == Min(CHUNK_SIZE, left)
    IN  {full} \cup (IF c.shortReads < MaxShortReads
                     THEN {n \in ShortReadSizes : n < full} ELSE {})

\* Faulty variant: a percentage taken of one byte more than the file has.
PercentShort(bytesSent, totalBytes) == (bytesSent * 100) \div (totalBytes + 1)

\* static_cast<int>((bytesSent * 100) / totalBytes)
Percent(bytesSent, totalBytes) == (bytesSent * 100) \div totalBytes

\* Faulty variant: progress posted after every chunk.
ProgressDueAlways(pct, lastPercent) == TRUE

\* Whether the chunk loop posts pct after a successful write.
ProgressDue(pct, lastPercent) == pct # lastPercent

\* Faulty variant: the worker goes on with the loop after reporting a failed write.
AfterWriteFailureNoReturn == "loop"

\* Where the worker is after it has posted the outcome of a failed write: it
\* returns.
AfterWriteFailure == "done"

UploadFinishedNote(id, res, payload) ==
    Note("uploadCadFinished", CallSrc(id), res.code, res.message, payload, 0, <<>>)

\* Upload worker, up to the chunk loop: the stream is opened on the stub, then
\* the file.
UploadOpen(id) ==
    /\ ~crashed
    /\ calls[id].pc = "spawned"
    /\ calls[id].op = UploadOp
    /\ IF ~calls[id].file.openable
       THEN /\ calls' = [calls EXCEPT ![id].pc = "done", ![id].net = TRUE,
                                      ![id].how = "nofile"]
            /\ queue' = Post(queue, UploadFinishedNote(id,
                            [code |-> "InvalidArgument",
                             message |-> <<"Cannot open file: ">>], "zero"))
       ELSE /\ calls' = [calls EXCEPT ![id].pc = "loop", ![id].net = TRUE,
                                      ![id].totalBytes = calls[id].file.size]
            /\ UNCHANGED queue
    /\ UNCHANGED <<auxVars, caller, opsLeft, connVars, subVars, monVars, envVars,
                   m_workers, delivered, crashed>>

\* Faulty variant: a loop that never marks a chunk as the last one.
AtEndNever(sent, total) == FALSE

\* file.atEnd() after `sent` bytes of a file of `total` bytes have been read.
AtEnd(sent, total) == sent = total

\* The UploadCadChunk message built for a buffer: the upload id is made once
\* per worker (the call's id stands for it), the name is the file's.
UploadCadChunk(id, file, index, isLast) ==
    [upload_id |-> id, filename |-> file, chunk_index |-> index, eof |-> isLast]

\* One iteration of the chunk loop that reads a non-empty buffer: the chunk is
\* written; a failed write ends the upload, a successful one may post progress.
UploadChunk(id) ==
    /\ ~crashed
    /\ calls[id].pc = "loop"
    /\ calls[id].bytesSent < calls[id].totalBytes
    /\ \E n \in ReadSizes(calls[id]), writeOk \in BOOLEAN :
         LET c    == calls[id]
             sent == c.bytesSent + n
             idx  == c.chunkIndex + 1
             pct  == Percent(sent, c.totalBytes)
             c1   == [c EXCEPT !.bytesSent = sent, !.chunkIndex = idx,
                               !.written = Append(@, UploadCadChunk(id, c.file, c.chunkIndex,
                                                                    AtEnd(sent, c.totalBytes))),
                               !.shortReads = IF n < Min(CHUNK_SIZE, c.totalBytes - c.bytesSent)
                                              THEN @ + 1 ELSE @]
         IN  IF ~writeOk
             THEN /\ calls' = [calls EXCEPT ![id] = [c1 EXCEPT !.pc = AfterWriteFailure,
                                                               !.how = "write"]]
                  /\ queue' = Post(queue, UploadFinishedNote(id,
                                  [code |-> "Internal",
                                   message |-> <<"Stream write failed at chunk ",
                                                 ToString(idx - 1)>>], "zero"))
             ELSE IF c.totalBytes > 0 /\ ProgressDue(pct, c.lastPercent)
                  THEN /\ calls' = [calls EXCEPT ![id] = [c1 EXCEPT !.lastPercent = pct]]
                       /\ queue' = Post(queue, Note("uploadCadProgress", CallSrc(id),
                                                    "none", <<>>, "none", pct, <<>>))
                  ELSE /\ calls' = [calls EXCEPT ![id] = c1]
                       /\ UNCHANGED queue
    /\ UNCHANGED <<auxVars, caller, opsLeft, connVars, subVars, monVars, envVars, m_workers,
                   delivered, crashed>>

\* The loop ends (end of file, or a read that returns nothing); WritesDone,
\* Finish, and the outcome is posted.
UploadFinish(id) ==
    /\ ~crashed
    /\ calls[id].pc = "loop"
    /\ \E emptyRead \in BOOLEAN :
         /\ emptyRead <=> calls[id].bytesSent < calls[id].totalBytes
         /\ \E st \in {StatusOK} \cup TransportFailures, r \in ServerResults :
              /\ queue' = Post(queue,
                    IF st.code = "OK"
                    THEN UploadFinishedNote(id, fromProtoResult(r), r.payload)
                    ELSE UploadFinishedNote(id, fromGrpcStatus(st), "zero"))
              /\ calls' = [calls EXCEPT ![id].pc = "done", ![id].readFailed = emptyRead,
                                        ![id].how = "rpc", ![id].st = st,
                                        ![id].res = IF st.code = "OK" THEN r ELSE @]
    /\ UNCHANGED <<auxVars, caller, opsLeft, connVars, subVars, monVars, envVars, m_workers,
                   delivered, crashed>>

\* ------------------------------------------------------ connection monitor
\* Faulty variant: every poll reports what it reads.
EdgeDetectedAlways(nowReady, lastReady) == TRUE

\* Whether a poll that reads nowReady reports it.
EdgeDetected(nowReady, lastReady) == nowReady # lastReady

\* One iteration of the monitor thread's loop: the stop flag, the channel read
\* under the mutex (the thread ends when the flag is set or the channel is
\* null), GetState, the edge test with the flag store and the notification,
\* the sleep.  The iteration is one step: what it reads (the flag, the
\* channel, the transport state) is read once, and while the thread runs
\* nothing else writes m_connected.  An iteration that sees no edge changes
\* nothing.
MonitorIterate(m) ==
    /\ ~crashed
    /\ monitors[m].pc = "run"
    /\ IF m_stopMonitor \/ m_channel = 0
       THEN /\ monitors' = [monitors EXCEPT ![m].pc = "done"]
            /\ UNCHANGED <<m_connected, queue>>
       ELSE LET nowReady == chanReady IN
            /\ EdgeDetected(nowReady, monitors[m].lastReady)
            /\ monitors' = [monitors EXCEPT ![m].lastReady = nowReady]
            /\ m_connected' = nowReady
            /\ queue' = Post(queue, Note("connectionStateChanged", MonSrc(m), "none",
                                         <<>>, IF nowReady THEN "true" ELSE "false",
                                         0, <<>>))
    /\ UNCHANGED <<auxVars, caller, opsLeft, connVars, subVars, envVars, m_workers, calls,
                   delivered, crashed, m_stopMonitor, m_connMonitorThread>>

\* The transport's connectivity changes (the channel connects, or loses its
\* connection).
ChannelFlip ==
    /\ ~crashed
    /\ m_channel # 0
    /\ flips < MaxFlips
    /\ chanReady' = ~chanReady
    /\ flips' = flips + 1
    /\ UNCHANGED <<auxVars, caller, opsLeft, connVars, subVars, monVars, m_workers, calls,
                   queue, delivered, crashed>>

\* ----------------------------------------------------- streaming threads
NewSub(stub) ==
    [pc |-> "start", stub |-> stub, ctx |-> 0, recv |-> 0, st |-> StatusOK,
     byClient |-> FALSE, chunks |-> <<>>, assembled |-> <<>>]

SubscribeName(k) ==
    CASE k = "sysState" -> "SubscribeSystemState"
      [] k = "events"   -> "SubscribeInspectionEvents"
      [] k = "download" -> "DownloadMedia"

ItemSignal(k) ==
    CASE k = "sysState" -> "systemStateReceived"
      [] k = "events"   -> "inspectionEventReceived"

\* Faulty variant: a stream that does not notice that its context was cancelled.
CancelledUnnoticed(k, c) == FALSE

\* Whether the context has been cancelled (a null pointer stands for none).
Cancelled(k, c) == c # 0 /\ ctxs[k][c]

\* Faulty variant: a cancellation that does not reach the context.
TryCancelLost(cs, c) == cs

\* if (ctx) ctx->TryCancel()
TryCancel(cs, c) == IF c = 0 THEN cs ELSE [cs EXCEPT ![c] = TRUE]

\* Head of a streaming thread: the context pointer is read under the mutex
\* and the stream is opened on it.
SubStart(k, g) ==
    /\ ~crashed
    /\ subs[k][g].pc = "start"
    /\ subs' = [subs EXCEPT ![k][g].ctx = m_subCtx[k],
                            ![k][g].pc = IF m_subCtx[k] = 0 THEN "done" ELSE "read"]
    /\ UNCHANGED <<auxVars, caller, opsLeft, connVars, monVars, envVars, m_workers, calls,
                   queue, delivered, crashed, m_subThread, m_subCtx, ctxs>>

\* Faulty variant: a chunk put in front of the buffer.
AssembleFront(assembled, data) == data \o assembled

\* QByteArray::append of a received chunk.
Assemble(assembled, data) == assembled \o data

\* What the read loop posts for the n-th message of a state or event stream.
ItemNote(k, g, n) == Note(ItemSignal(k), SubSrc(k, g), "none", <<>>, "data", n, <<>>)

\* reader->Read returns true: a state or event message is converted and
\* posted; a media chunk is appended to the buffer.
SubRead(k, g) ==
    /\ ~crashed
    /\ subs[k][g].pc = "read"
    /\ ~Cancelled(k, subs[k][g].ctx)
    /\ subs[k][g].recv < MaxItems
    /\ IF k = "download"
       THEN /\ LET data == ChunkData(subs[k][g].recv + 1) IN
                 subs' = [subs EXCEPT ![k][g].recv = @ + 1,
                                      ![k][g].chunks = Append(@, data),
                                      ![k][g].assembled = Assemble(@, data)]
            /\ UNCHANGED queue
       ELSE /\ subs' = [subs EXCEPT ![k][g].recv = @ + 1]
            /\ queue' = Post(queue, ItemNote(k, g, subs[k][g].recv + 1))
    /\ UNCHANGED <<auxVars, caller, opsLeft, connVars, monVars, envVars, m_workers, calls,
                   delivered, crashed, m_subThread, m_subCtx, ctxs>>

\* reader->Read returns false: the stream is over, cancelled by the client or
\* ended by the server or the transport.  byClient records whether the
\* client's TryCancel is what ended it.
SubReadEnd(k, g) ==
    /\ ~crashed
    /\ subs[k][g].pc = "read"
    /\ \E st \in StreamEndStatuses :
         /\ Cancelled(k, subs[k][g].ctx) => st = StatusCancelled
         /\ subs' = [subs EXCEPT ![k][g].pc = "finish", ![k][g].st = st,
                                 ![k][g].byClient = Cancelled(k, subs[k][g].ctx)]
    /\ UNCHANGED <<auxVars, caller, opsLeft, connVars, monVars, envVars, m_workers, calls,
                   queue, delivered, crashed, m_subThread, m_subCtx, ctxs>>

\* Faulty variant: a thread that reports every status but OK.
ReportsErrorAlsoCancelled(st) == st.code # "OK"

\* Whether the thread reports the status the stream finished with as an error.
ReportsError(st) == st.code # "OK" /\ st.code # "CANCELLED"

\* Whether the download thread delivers the assembled buffer.
DeliversPayload(st) == st.code = "OK"

ErrorNote(k, g, st) ==
    Note("errorOccurred", SubSrc(k, g), "none",
         <<SubscribeName(k), IF k = "download" THEN " failed: " ELSE " ended: ", st.msg>>,
         "none", 0, <<>>)

\* reader->Finish and what follows it.
SubFinish(k, g) ==
    /\ ~crashed
    /\ subs[k][g].pc = "finish"
    /\ subs' = [subs EXCEPT ![k][g].pc = "done"]
    /\ LET u == subs[k][g] IN
         IF k = "download" /\ DeliversPayload(u.st)
         THEN queue' = Post(queue, Note("mediaDownloaded", SubSrc(k, g), "none", <<>>,
                                        "data", 0, u.assembled))
         ELSE IF ReportsError(u.st)
              THEN queue' = Post(queue, ErrorNote(k, g, u.st))
              ELSE UNCHANGED queue
    /\ UNCHANGED <<auxVars, caller, opsLeft, connVars, monVars, envVars, m_workers, calls,
                   delivered, crashed, m_subThread, m_subCtx, ctxs>>

\* ---------------------------------------------------------- subscriptions
KindIndex(kind) == CHOOSE i \in 1..3 : Kinds[i] = kind

\* Faulty variant: a handle that is let go of without waiting for its thread.
SubJoinReturnsAtOnce(kind) == TRUE

\* Whether join() on a thread handle returns: the handle is not joinable, or
\* its thread has ended.
SubJoinReturns(kind) ==
    IF m_subThread[kind] = 0 THEN TRUE ELSE subs[kind][m_subThread[kind]].pc = "done"

\* subscribeSystemState, subscribeInspectionEvents, downloadMedia, first
\* block: the previous context of the kind is cancelled under the mutex.
InvokeSubscribe(kind) ==
    /\ CanInvoke
    /\ opsLeft' = opsLeft - 1
    /\ ctxs' = [ctxs EXCEPT ![kind] = TryCancel(@, m_subCtx[kind])]
    /\ caller' = [Idle EXCEPT !.pc = "sb_join", !.op = "subscribe", !.k = KindIndex(kind)]
    /\ UNCHANGED <<auxVars, connVars, monVars, envVars, m_workers, calls, queue, delivered,
                   crashed, m_subThread, m_subCtx, subs>>

\* if (thread.joinable()) thread.join()
SubscribeJoin ==
    /\ ~crashed
    /\ caller.pc = "sb_join"
    /\ LET kind == Kinds[caller.k] IN
         /\ SubJoinReturns(kind)
         /\ m_subThread' = [m_subThread EXCEPT ![kind] = 0]
    /\ caller' = [caller EXCEPT !.pc = "sb_ctx"]
    /\ UNCHANGED <<auxVars, opsLeft, connVars, monVars, envVars, m_workers, calls, queue,
                   delivered, crashed, m_subCtx, ctxs, subs>>

\* Faulty variant: a slot that goes on to start its thread without a stub.
AfterNotConnectedNoReturn == "sb_spawn"

\* if (!stub) { ...; return; }: where the slot is after posting the error.
AfterNotConnected == "idle"

\* The stub is read and a fresh context installed under the mutex; without a
\* stub the error is posted and the slot returns.
SubscribeCtx ==
    /\ ~crashed
    /\ caller.pc = "sb_ctx"
    /\ LET kind == Kinds[caller.k] IN
         /\ ctxs' = [ctxs EXCEPT ![kind] = Append(@, FALSE)]
         /\ m_subCtx' = [m_subCtx EXCEPT ![kind] = Len(ctxs[kind]) + 1]
         /\ IF ~HasStub(m_stub)
            THEN /\ queue' = Post(queue, Note("errorOccurred", ClientSrc, "none",
                                   <<SubscribeName(kind), ": not connected">>,
                                   "none", 0, <<>>))
                 /\ caller' = IF AfterNotConnected = "idle" THEN Idle
                              ELSE [caller EXCEPT !.pc = AfterNotConnected, !.id = m_stub]
            ELSE /\ caller' = [caller EXCEPT !.pc = "sb_spawn", !.id = m_stub]
                 /\ UNCHANGED queue
    /\ UNCHANGED <<auxVars, opsLeft, connVars, monVars, envVars, m_workers, calls, delivered,
                   crashed, m_subThread, subs>>

\* m_xxxThread = std::thread(...): assigning to a handle that is still
\* joinable calls std::terminate.
SubscribeSpawn ==
    /\ ~crashed
    /\ caller.pc = "sb_spawn"
    /\ LET kind == Kinds[caller.k] IN
         IF m_subThread[kind] # 0
         THEN /\ crashed' = TRUE
              /\ UNCHANGED <<m_subThread, subs>>
         ELSE /\ subs' = [subs EXCEPT ![kind] = Append(@, NewSub(caller.id))]
              /\ m_subThread' = [m_subThread EXCEPT ![kind] = Len(subs[kind]) + 1]
              /\ UNCHANGED crashed
    /\ caller' = Idle
    /\ UNCHANGED <<auxVars, opsLeft, connVars, monVars, envVars, m_workers, calls, queue,
                   delivered, m_subCtx, ctxs>>

\* cancelAllContexts
CancelAllContexts == [kind \in KindSet |-> TryCancel(ctxs[kind], m_subCtx[kind])]

\* Faulty variant: a disconnect that cancels the contexts but leaves out the joins of
\* stopSubscriptions.
TeardownEntryWithoutJoins(op) == IF op = "stopSubscriptions" THEN "ss_join" ELSE "dc_stopmon"

\* What follows cancelAllContexts in stopSubscriptions, and so in
\* disconnectFromGateway and connectToGateway, which call it first: the joins.
TeardownEntry(op) == "ss_join"

\* Entry of stopSubscriptions, disconnectFromGateway and connectToGateway:
\* each starts with cancelAllContexts.
InvokeTeardown(op, addr) ==
    /\ CanInvoke
    /\ opsLeft' = opsLeft - 1
    /\ ctxs' = CancelAllContexts
    /\ caller' = [Idle EXCEPT !.pc = TeardownEntry(op), !.op = op, !.k = 1, !.addr = addr]
    /\ UNCHANGED <<auxVars, connVars, monVars, envVars, m_workers, calls, queue, delivered,
                   crashed, m_subThread, m_subCtx, subs>>

InvokeStopSubscriptions == InvokeTeardown("stopSubscriptions", "")

InvokeDisconnect == InvokeTeardown("disconnect", "")

InvokeConnect == \E a \in Addresses : InvokeTeardown("connect", a)

\* Faulty variant: stopSubscriptions goes on to tear the session down.
AfterStopSubscriptionsTearsDown(op) == "dc_stopmon"

\* Where stopSubscriptions returns to.
AfterStopSubscriptions(op) == IF op = "stopSubscriptions" THEN "idle" ELSE "dc_stopmon"

\* Faulty variant: a stopSubscriptions that leaves out its last join.
JoinsLeftButLast(k) == k < Len(Kinds) - 1

\* Whether stopSubscriptions has a join left after that of the k-th handle
\* (m_sysStateThread, m_eventsThread, m_downloadThread).
JoinsLeft(k) == k < Len(Kinds)

\* The three joins of stopSubscriptions, in order.
StopSubscriptionsJoin ==
    /\ ~crashed
    /\ caller.pc = "ss_join"
    /\ LET kind == Kinds[caller.k] IN
         /\ SubJoinReturns(kind)
         /\ m_subThread' = [m_subThread EXCEPT ![kind] = 0]
    /\ caller' = IF JoinsLeft(caller.k) THEN [caller EXCEPT !.k = @ + 1]
                 ELSE IF AfterStopSubscriptions(caller.op) = "idle" THEN Idle
                 ELSE [caller EXCEPT !.pc = AfterStopSubscriptions(caller.op), !.k = 0]
    /\ UNCHANGED <<auxVars, opsLeft, connVars, monVars, envVars, m_workers, calls, queue,
                   delivered, crashed, m_subCtx, ctxs, subs>>

\* ------------------------------------------------- disconnect and connect
\* stopConnectionMonitor: the flag.
StopMonitorFlag ==
    /\ ~crashed
    /\ caller.pc = "dc_stopmon"
    /\ m_stopMonitor' = TRUE
    /\ caller' = [caller EXCEPT !.pc = "dc_joinmon"]
    /\ UNCHANGED <<auxVars, opsLeft, connVars, subVars, envVars, m_workers, calls, queue,
                   delivered, crashed, m_connected, m_connMonitorThread, monitors>>

\* Faulty variant: the monitor's handle is let go of without waiting.
MonitorJoinReturnsAtOnce == TRUE

MonitorJoinReturns ==
    IF m_connMonitorThread = 0 THEN TRUE ELSE monitors[m_connMonitorThread].pc = "done"

\* stopConnectionMonitor: the join.
StopMonitorJoin ==
    /\ ~crashed
    /\ caller.pc = "dc_joinmon"
    /\ MonitorJoinReturns
    /\ m_connMonitorThread' = 0
    /\ caller' = [caller EXCEPT !.pc = "dc_take"]
    /\ UNCHANGED <<auxVars, opsLeft, connVars, subVars, envVars, m_workers, calls, queue,
                   delivered, crashed, m_connected, m_stopMonitor, monitors>>

\* joinAllWorkers: the vector is moved out under the mutex.
TakeWorkers ==
    /\ ~crashed
    /\ caller.pc = "dc_take"
    /\ caller' = [caller EXCEPT !.pc = "dc_joinw", !.tmp = m_workers]
    /\ m_workers' = <<>>
    /\ UNCHANGED <<auxVars, opsLeft, connVars, subVars, monVars, envVars, calls, queue,
                   delivered, crashed>>

\* joinAllWorkers: one iteration of the join loop.
JoinWorker ==
    /\ ~crashed
    /\ caller.pc = "dc_joinw"
    /\ caller.tmp # <<>>
    /\ LET w == Head(caller.tmp) IN
         /\ calls[w].thread = "joinable" => calls[w].pc = "done"
         /\ calls' = [calls EXCEPT ![w].thread = "joined"]
    /\ caller' = [caller EXCEPT !.tmp = Tail(@)]
    /\ UNCHANGED <<auxVars, opsLeft, connVars, subVars, monVars, envVars, m_workers, queue,
                   delivered, crashed>>

\* Whether disconnectFromGateway may go on to clear the session.
TeardownComplete == caller.pc = "dc_joinw" /\ caller.tmp = <<>>

\* Faulty variant: the notification is posted whatever the flag was.
PostsDisconnectedAlways(was) == TRUE

\* if (m_connected.exchange(false)): whether disconnectFromGateway posts
\* connectionStateChanged(false), given the value the exchange returned.
PostsDisconnected(was) == was

\* disconnectFromGateway, last block: the session is cleared under the mutex
\* and the flag exchanged; connectToGateway continues from here.
ClearSession ==
    /\ ~crashed
    /\ TeardownComplete
    /\ m_stub' = 0
    /\ m_channel' = 0
    /\ m_address' = ""
    /\ m_connected' = FALSE
    /\ chanReady' = FALSE
    /\ queue' = IF PostsDisconnected(m_connected)
                THEN Post(queue, Note("connectionStateChanged", ClientSrc, "none",
                                      <<>>, "false", 0, <<>>))
                ELSE queue
    /\ caller' = IF caller.op = "connect" THEN [caller EXCEPT !.pc = "cn_set"] ELSE Idle
    /\ UNCHANGED <<auxVars, opsLeft, subVars, m_workers, calls, delivered, crashed, sessions,
                   flips, m_stopMonitor, m_connMonitorThread, monitors>>

\* connectToGateway: the new channel and stub are installed under the mutex.
InstallSession ==
    /\ ~crashed
    /\ caller.pc = "cn_set"
    /\ m_address' = caller.addr
    /\ sessions' = sessions + 1
    /\ m_channel' = sessions + 1
    /\ m_stub' = sessions + 1
    /\ caller' = [caller EXCEPT !.pc = "cn_monitor"]
    /\ UNCHANGED <<auxVars, opsLeft, subVars, monVars, envVars, m_workers, calls, queue,
                   delivered, crashed>>

\* startConnectionMonitor; assigning to a joinable handle calls std::terminate.
StartMonitor ==
    /\ ~crashed
    /\ caller.pc = "cn_monitor"
    /\ m_stopMonitor' = FALSE
    /\ IF m_connMonitorThread # 0
       THEN /\ crashed' = TRUE
            /\ UNCHANGED <<monitors, m_connMonitorThread>>
       ELSE /\ monitors' = Append(monitors, NewMonitor)
            /\ m_connMonitorThread' = Len(monitors) + 1
            /\ UNCHANGED crashed
    /\ caller' = Idle
    /\ UNCHANGED <<auxVars, opsLeft, connVars, subVars, envVars, m_workers, calls, queue,
                   delivered, m_connected>>

\* ---------------------------------------------------------------- consumer
\* The receiver's event loop takes the oldest queued invocation and runs it;
\* it runs on the calling thread, so only while that thread is in no slot.
Consume ==
    /\ ~crashed
    /\ caller.pc = "idle"
    /\ queue # <<>>
    /\ delivered' = Append(delivered, Head(queue))
    /\ queue' = Tail(queue)
    /\ UNCHANGED <<auxVars, caller, opsLeft, connVars, subVars, monVars, envVars, m_workers,
                   calls, crashed>>

\* ---------------------------------------------------------- specifications
\* The monitor thread and a one-shot worker share nothing but the event queue,
\* to which each only appends: the specifications about one-shot calls leave
\* the monitor's steps out.

\* One-shot calls: the calling thread invokes one-shot operations only, on
\* the client as constructed (with or without a session).
InitCalls == Constructed(MaxCalls)

NextCalls ==
    \/ DispatchUnary(TrackedUnaryOps)
    \/ DispatchUpload(CallsFiles)
    \/ DispatchControl(ControlOps)
    \/ RegisterWorker
    \/ \E id \in 1..Len(calls) : WorkerRun(id)
    \/ \E id \in 1..Len(calls) : UploadOpen(id)
    \/ \E id \in 1..Len(calls) : UploadChunk(id)
    \/ \E id \in 1..Len(calls) : UploadFinish(id)

SpecCalls == InitCalls /\ [][NextCalls]_vars

\* Uploads: the calling thread invokes uploadCad only, on files of every
\* size class (empty, one byte, exactly one chunk, several chunks).
InitUpload == Constructed(MaxUploads)

NextUpload ==
    \/ DispatchUpload(Files)
    \/ RegisterWorker
    \/ \E id \in 1..Len(calls) : UploadOpen(id)
    \/ \E id \in 1..Len(calls) : UploadChunk(id)
    \/ \E id \in 1..Len(calls) : UploadFinish(id)

SpecUpload == InitUpload /\ [][NextUpload]_vars

\* Subscriptions: the calling thread subscribes, downloads and stops the
\* subscriptions; the streaming threads run.
InitSubs == Constructed(MaxSubOps)

NextSubs ==
    \/ \E kind \in KindSet : InvokeSubscribe(kind)
    \/ SubscribeJoin
    \/ SubscribeCtx
    \/ SubscribeSpawn
    \/ InvokeStopSubscriptions
    \/ StopSubscriptionsJoin
    \/ \E k \in KindSet : \E g \in 1..Len(subs[k]) : SubStart(k, g)
    \/ \E k \in KindSet : \E g \in 1..Len(subs[k]) : SubRead(k, g)
    \/ \E k \in KindSet : \E g \in 1..Len(subs[k]) : SubReadEnd(k, g)
    \/ \E k \in KindSet : \E g \in 1..Len(subs[k]) : SubFinish(k, g)

SpecSubs == InitSubs /\ [][NextSubs]_vars

\* Delivery: state and event subscriptions are started and replaced, their
\* threads post, and the consumer processes the queue between slot calls.
ItemKinds == {"sysState", "events"}

InitDelivery == Constructed(MaxSubOps)

NextDelivery ==
    \/ \E kind \in ItemKinds : InvokeSubscribe(kind)
    \/ SubscribeJoin
    \/ SubscribeCtx
    \/ SubscribeSpawn
    \/ \E k \in ItemKinds : \E g \in 1..Len(subs[k]) : SubStart(k, g)
    \/ \E k \in ItemKinds : \E g \in 1..Len(subs[k]) : SubRead(k, g)
    \/ \E k \in ItemKinds : \E g \in 1..Len(subs[k]) : SubReadEnd(k, g)
    \/ \E k \in ItemKinds : \E g \in 1..Len(subs[k]) : SubFinish(k, g)
    \/ Consume

SpecDelivery == InitDelivery /\ [][NextDelivery]_vars

\* The tracked one-shot operation of the specifications about teardown.
TeardownUnaryOps == {"getPlan"}

\* Sessions: the calling thread issues a tracked call, subscribes, disconnects
\* and reconnects while the worker, the streaming threads and the monitor
\* run.  The transport's state is left as it is: what the monitor reports
\* plays no part in the order of teardown.
InitSessions == Constructed(MaxTeardownOps)

NextSessions ==
    \/ DispatchUnary(TeardownUnaryOps)
    \/ RegisterWorker
    \/ \E id \in 1..Len(calls) : WorkerRun(id)
    \/ \E kind \in KindSet : InvokeSubscribe(kind)
    \/ SubscribeJoin
    \/ SubscribeCtx
    \/ SubscribeSpawn
    \/ InvokeDisconnect
    \/ InvokeConnect
    \/ StopSubscriptionsJoin
    \/ StopMonitorFlag
    \/ StopMonitorJoin
    \/ TakeWorkers
    \/ JoinWorker
    \/ ClearSession
    \/ InstallSession
    \/ StartMonitor
    \/ \E m \in 1..Len(monitors) : MonitorIterate(m)
    \/ \E k \in KindSet : \E g \in 1..Len(subs[k]) : SubStart(k, g)
    \/ \E k \in KindSet : \E g \in 1..Len(subs[k]) : SubRead(k, g)
    \/ \E k \in KindSet : \E g \in 1..Len(subs[k]) : SubReadEnd(k, g)
    \/ \E k \in KindSet : \E g \in 1..Len(subs[k]) : SubFinish(k, g)

SpecSessions == InitSessions /\ [][NextSessions]_vars

\* Teardown: the calling thread issues a tracked call, control calls and
\* subscriptions and disconnects or reconnects, while the workers, the
\* streaming threads and the monitor run and the transport changes state.
InitTeardown == Constructed(MaxTeardownOps)

NextTeardown ==
    \/ DispatchUnary(TeardownUnaryOps)
    \/ DispatchControl(ControlOps)
    \/ RegisterWorker
    \/ \E id \in 1..Len(calls) : WorkerRun(id)
    \/ \E id \in 1..Len(calls) : DanglingStubUse(id)
    \/ \E kind \in KindSet : InvokeSubscribe(kind)
    \/ SubscribeJoin
    \/ SubscribeCtx
    \/ SubscribeSpawn
    \/ InvokeDisconnect
    \/ InvokeConnect
    \/ StopSubscriptionsJoin
    \/ StopMonitorFlag
    \/ StopMonitorJoin
    \/ TakeWorkers
    \/ JoinWorker
    \/ ClearSession
    \/ InstallSession
    \/ StartMonitor
    \/ \E m \in 1..Len(monitors) : MonitorIterate(m)
    \/ ChannelFlip
    \/ \E k \in KindSet : \E g \in 1..Len(subs[k]) : SubStart(k, g)
    \/ \E k \in KindSet : \E g \in 1..Len(subs[k]) : SubReadEnd(k, g)
    \/ \E k \in KindSet : \E g \in 1..Len(subs[k]) : SubFinish(k, g)

SpecTeardown == InitTeardown /\ [][NextTeardown]_vars

\* A read that the client's cancellation unblocks.
CancelledReadEnd(k, g) == Cancelled(k, subs[k][g].ctx) /\ SubReadEnd(k, g)

\* Scheduling: a slot that has been entered runs on; a one-shot call
\* completes, at the latest at its deadline; a streaming thread that is not
\* blocked in Read runs on, and a Read on a cancelled context returns; the
\* monitor wakes up from its sleep.  A Read on a context that is not cancelled
\* may block for ever, and no slot has to be invoked.
FairSessions ==
    /\ WF_vars(SubscribeJoin) /\ WF_vars(SubscribeCtx) /\ WF_vars(SubscribeSpawn)
    /\ WF_vars(RegisterWorker)
    /\ WF_vars(StopSubscriptionsJoin)
    /\ WF_vars(StopMonitorFlag) /\ WF_vars(StopMonitorJoin)
    /\ WF_vars(TakeWorkers) /\ WF_vars(JoinWorker) /\ WF_vars(ClearSession)
    /\ WF_vars(InstallSession) /\ WF_vars(StartMonitor)
    /\ \A id \in 1..MaxTeardownOps : WF_vars(id <= Len(calls) /\ WorkerRun(id))
    /\ \A m \in 1..(MaxTeardownOps + 1) : WF_vars(m <= Len(monitors) /\ MonitorIterate(m))
    /\ \A k \in KindSet : \A g \in 1..MaxTeardownOps :
         /\ WF_vars(g <= Len(subs[k]) /\ SubStart(k, g))
         /\ WF_vars(g <= Len(subs[k]) /\ CancelledReadEnd(k, g))
         /\ WF_vars(g <= Len(subs[k]) /\ SubFinish(k, g))

SpecSessionsFair == SpecSessions /\ FairSessions

\* Connection: the calling thread connects and disconnects while the monitor
\* polls and the transport changes state.
InitConnection == Constructed(MaxConnOps)

NextConnection ==
    \/ InvokeDisconnect
    \/ InvokeConnect
    \/ StopSubscriptionsJoin
    \/ StopMonitorFlag
    \/ StopMonitorJoin
    \/ TakeWorkers
    \/ ClearSession
    \/ InstallSession
    \/ StartMonitor
    \/ \E m \in 1..Len(monitors) : MonitorIterate(m)
    \/ ChannelFlip

SpecConnection == InitConnection /\ [][NextConnection]_vars

\* --- SpecThreads: two threads call the public slots. One of them is the
\* running caller, the other is parked where it stands; the scheduler may
\* swap them between any two steps, so that the steps of two slots interleave
\* (the blocks under m_mutex stay single steps).
SwitchThread ==
    /\ ~crashed
    /\ caller # parked
    /\ caller' = parked
    /\ parked' = caller
    /\ UNCHANGED <<opsLeft, connVars, subVars, monVars, envVars, m_workers, calls, queue,
                   delivered, crashed, conv, mx>>

ThreadUnaryOps == {"getTaskStatus"}

InitThreads == Constructed(MaxThreadOps)

NextThreads ==
    \/ SwitchThread
    \/ DispatchUnary(ThreadUnaryOps)
    \/ RegisterWorker
    \/ \E id \in 1..Len(calls) : WorkerRun(id)
    \/ \E kind \in KindSet : InvokeSubscribe(kind)
    \/ SubscribeJoin
    \/ SubscribeCtx
    \/ SubscribeSpawn
    \/ InvokeStopSubscriptions
    \/ InvokeDisconnect
    \/ StopSubscriptionsJoin
    \/ StopMonitorFlag
    \/ StopMonitorJoin
    \/ TakeWorkers
    \/ JoinWorker
    \/ ClearSession
    \/ \E m \in 1..Len(monitors) : MonitorIterate(m)
    \/ \E k \in KindSet : \E g \in 1..Len(subs[k]) : SubStart(k, g)
    \/ \E k \in KindSet : \E g \in 1..Len(subs[k]) : SubRead(k, g)
    \/ \E k \in KindSet : \E g \in 1..Len(subs[k]) : SubReadEnd(k, g)
    \/ \E k \in KindSet : \E g \in 1..Len(subs[k]) : SubFinish(k, g)

SpecThreads == InitThreads /\ [][NextThreads]_vars

\* --- SpecStop: subscriptions are started and stopped with stopSubscriptions
\* on a client that also has a monitor and issues tracked one-shot calls. The
\* streams carry no items here: each ends when cancelled or when the server
\* ends it.
StopKinds == {"sysState"}
StopUnaryOps == {"getNavMap"}

InitStop == Constructed(MaxStopOps)

NextStop ==
    \/ \E kind \in StopKinds : InvokeSubscribe(kind)
    \/ SubscribeJoin
    \/ SubscribeCtx
    \/ SubscribeSpawn
    \/ InvokeStopSubscriptions
    \/ StopSubscriptionsJoin
    \/ DispatchUnary(StopUnaryOps)
    \/ RegisterWorker
    \/ \E id \in 1..Len(calls) : WorkerRun(id)
    \/ \E m \in 1..Len(monitors) : MonitorIterate(m)
    \/ ChannelFlip
    \/ \E k \in KindSet : \E g \in 1..Len(subs[k]) : SubStart(k, g)
    \/ \E k \in KindSet : \E g \in 1..Len(subs[k]) : SubReadEnd(k, g)
    \/ \E k \in KindSet : \E g \in 1..Len(subs[k]) : SubFinish(k, g)

SpecStop == InitStop /\ [][NextStop]_vars

\* --- SpecMutex: the lock discipline. Every function is the sequence of its
\* operations on shared state, with the scopes of its lock_guards; data is
\* left out. A thread standing at an operation is executing it (a blocking
\* one takes as long as it takes).
cancelAllContexts == <<"lock", "TryCancel", "unlock">>

stopSubscriptions == cancelAllContexts \o <<"join_stream", "join_stream", "join_stream">>

stopConnectionMonitor == <<"store_stop", "join_monitor">>

\* Faulty variant: the workers are joined inside the lock_guard's scope.
joinAllWorkersLocked == <<"lock", "move_workers", "join_worker", "unlock">>

joinAllWorkers == <<"lock", "move_workers", "unlock", "join_worker">>

\* The last block resets stub, channel and address, exchanges the liveness
\* flag and queues the notification, all inside one lock_guard.
disconnectFromGateway ==
    stopSubscriptions \o stopConnectionMonitor \o joinAllWorkers
        \o <<"lock", "reset_session", "unlock">>

connectToGateway ==
    disconnectFromGateway \o <<"lock", "set_session", "unlock", "spawn_monitor">>

\* The bodies of the functions and threads, by name.
Operations(fn) ==
    CASE fn = "stopSubscriptions"     -> stopSubscriptions
      [] fn = "disconnectFromGateway" -> disconnectFromGateway
      [] fn = "connectToGateway"      -> connectToGateway
      [] fn = "currentAddress"        -> <<"lock", "read_address", "unlock">>
      \* a tracked one-shot slot, with and without a stub
      [] fn = "getPlan"               -> <<"lock", "read_stub", "unlock", "spawn_worker",
                                           "lock", "reap", "push_back", "unlock">>
      [] fn = "getPlan_nostub"        -> <<"lock", "read_stub", "unlock", "post">>
      \* pauseInspection and runControlRpc
      [] fn = "pauseInspection"       -> <<"lock", "read_stub", "unlock", "spawn_worker",
                                           "detach">>
      \* a subscribing slot, with and without a stub
      [] fn = "subscribeSystemState"  -> <<"lock", "TryCancel", "unlock", "join_stream",
                                           "lock", "read_stub", "new_ctx", "unlock",
                                           "spawn_stream">>
      [] fn = "subscribeSystemState_nostub" ->
                                         <<"lock", "TryCancel", "unlock", "join_stream",
                                           "lock", "read_stub", "new_ctx", "unlock", "post">>
      \* thread bodies
      [] fn = "unary_worker"          -> <<"rpc", "post">>
      [] fn = "upload_worker"         -> <<"rpc", "read_file", "write", "post",
                                           "writes_done", "finish", "post">>
      [] fn = "stream_thread"         -> <<"lock", "read_ctx", "unlock", "rpc", "read",
                                           "post", "read", "finish", "post">>
      \* one iteration of the monitor's loop
      [] fn = "monitor_loop"          -> <<"load_stop", "lock", "read_channel", "unlock",
                                           "GetState", "store_connected", "post", "sleep">>
      [] OTHER                        -> <<>>

Slots == {"stopSubscriptions", "disconnectFromGateway", "connectToGateway",
          "currentAddress", "getPlan", "getPlan_nostub", "pauseInspection",
          "subscribeSystemState", "subscribeSystemState_nostub"}
WorkerBodies == {"unary_worker", "upload_worker"}

Ended(t) == mx.at[t].i > Len(Operations(mx.at[t].fn))

\* The operation the thread stands at.
Current(t) == IF Ended(t) THEN "none" ELSE Operations(mx.at[t].fn)[mx.at[t].i]

Started(t, fn) == [mx EXCEPT !.at[t] = [fn |-> fn, i |-> 1]]

Advanced(m, t) == [m EXCEPT !.at[t].i = @ + 1]

MutexFrame ==
    UNCHANGED <<caller, opsLeft, connVars, subVars, monVars, envVars, m_workers, calls,
                queue, delivered, crashed, parked, conv>>

\* The calling thread enters a slot.
MutexInvoke ==
    /\ Ended("caller")
    /\ mx.ops < MaxMutexOps
    /\ \E fn \in Slots : mx' = [Started("caller", fn) EXCEPT !.ops = @ + 1]
    /\ MutexFrame

\* std::lock_guard's constructor: waits until the mutex is free.
MutexLock(t) ==
    /\ Current(t) = "lock"
    /\ mx.holder = "none"
    /\ mx' = [Advanced(mx, t) EXCEPT !.holder = t]
    /\ MutexFrame

\* The end of the lock_guard's scope.
MutexUnlock(t) ==
    /\ Current(t) = "unlock"
    /\ mx' = [Advanced(mx, t) EXCEPT !.holder = "none"]
    /\ MutexFrame

\* join() returns when the thread has ended (or the handle is not joinable).
MutexJoin ==
    /\ Current("caller") \in {"join_stream", "join_monitor", "join_worker"}
    /\ Current("caller") = "join_stream" => Ended("stream")
    /\ Current("caller") = "join_monitor" => Ended("monitor")
    /\ Current("caller") = "join_worker" => Ended("worker")
    /\ mx' = Advanced(mx, "caller")
    /\ MutexFrame

\* A thread is started: the streaming thread and the monitor on handles that
\* were joined before, a worker on a handle of its own.
MutexSpawn ==
    /\ Current("caller") \in {"spawn_stream", "spawn_monitor", "spawn_worker"}
    /\ \E fn \in (CASE Current("caller") = "spawn_stream" -> {"stream_thread"}
                    [] Current("caller") = "spawn_monitor" -> {"monitor_loop"}
                    [] Current("caller") = "spawn_worker" -> WorkerBodies) :
         LET t == CASE Current("caller") = "spawn_stream" -> "stream"
                    [] Current("caller") = "spawn_monitor" -> "monitor"
                    [] Current("caller") = "spawn_worker" -> "worker"
         IN  /\ Ended(t)
             /\ mx' = Advanced([mx EXCEPT !.at[t] = [fn |-> fn, i |-> 1]], "caller")
    /\ MutexFrame

\* Any other operation of a thread: it completes.
MutexOperation(t) ==
    /\ ~Ended(t)
    /\ Current(t) \notin {"lock", "unlock", "join_stream", "join_monitor", "join_worker",
                          "spawn_stream", "spawn_monitor", "spawn_worker", "sleep"}
    /\ mx' = Advanced(mx, t)
    /\ MutexFrame

\* The monitor wakes up and goes round its loop again, or (at load_stop, when
\* the flag is set or the channel gone) leaves it.
MonitorLoops ==
    /\ Current("monitor") = "sleep"
    /\ \/ mx' = [mx EXCEPT !.at["monitor"].i = 1]
       \/ mx' = Advanced(mx, "monitor")
    /\ MutexFrame

InitMutex == Constructed(0)

NextMutex ==
    \/ MutexInvoke
    \/ \E t \in MutexThreads : MutexLock(t)
    \/ \E t \in MutexThreads : MutexUnlock(t)
    \/ MutexJoin
    \/ MutexSpawn
    \/ \E t \in MutexThreads : MutexOperation(t)
    \/ MonitorLoops

SpecMutex == InitMutex /\ [][NextMutex]_vars

\* --- SpecMarshal: the marshalling helpers, each applied to one wire value.
\* The client is as constructed and nothing is invoked on it; conv holds the
\* wire value a received message carries and what the helper made of it.
InitMarshal ==
    /\ ConstructedClient(0)
    /\ conv \in [kind : {"error"}, wire : {<<w>> : w \in WireErrorCodes \cup UnknownWireValues},
                 domain : {<<>>}]
           \cup [kind : {"phase"}, wire : {<<w>> : w \in WireTaskPhases \cup UnknownWireValues},
                  domain : {<<>>}]
           \cup [kind : {"event"}, wire : {<<w>> : w \in WireEventTypes \cup UnknownWireValues},
                  domain : {<<>>}]
           \cup [kind : {"time"}, wire : {<<w>> : w \in WireTimestamps}, domain : {<<>>}]

ConvertWith(kind, value) ==
    /\ conv.kind = kind
    /\ conv.domain = <<>>
    /\ conv' = [conv EXCEPT !.domain = <<value>>]
    /\ UNCHANGED <<caller, opsLeft, connVars, subVars, monVars, envVars, m_workers,
                   calls, queue, delivered, crashed, parked, mx>>

ConvertError == ConvertWith("error", fromProtoError(conv.wire[1]))
ConvertTaskPhase == ConvertWith("phase", fromProtoTaskPhase(conv.wire[1]))
ConvertEventType == ConvertWith("event", fromProtoEventType(conv.wire[1]))
ConvertTimestamp == ConvertWith("time", fromTimestamp(conv.wire[1]))

NextMarshal ==
    \/ ConvertError
    \/ ConvertTaskPhase
    \/ ConvertEventType
    \/ ConvertTimestamp

SpecMarshal == InitMarshal /\ [][NextMarshal]_vars

\* Lifecycle: one calling thread invokes connect, disconnect, the three
\* subscriptions and stopSubscriptions in every order. The destructor is
\* disconnectFromGateway, so every return of a disconnect is a point at which
\* the client may be destroyed. The server sends no item: the streams end by
\* cancellation, by the server or by the transport.
InitLifecycle == Constructed(MaxLifeOps)

NextLifecycle ==
    \/ \E kind \in KindSet : InvokeSubscribe(kind)
    \/ SubscribeJoin
    \/ SubscribeCtx
    \/ SubscribeSpawn
    \/ InvokeStopSubscriptions
    \/ InvokeDisconnect
    \/ InvokeConnect
    \/ StopSubscriptionsJoin
    \/ StopMonitorFlag
    \/ StopMonitorJoin
    \/ TakeWorkers
    \/ ClearSession
    \/ InstallSession
    \/ StartMonitor
    \/ \E m \in 1..Len(monitors) : MonitorIterate(m)
    \/ \E k \in KindSet : \E g \in 1..Len(subs[k]) : SubStart(k, g)
    \/ \E k \in KindSet : \E g \in 1..Len(subs[k]) : SubReadEnd(k, g)
    \/ \E k \in KindSet : \E g \in 1..Len(subs[k]) : SubFinish(k, g)

SpecLifecycle == InitLifecycle /\ [][NextLifecycle]_vars

\* Plan requests: the engineer window's planRequested handler is the only
\* user of the client. The handler calls setInspectionTargets and then
\* planInspection, so the handler stands at its second call exactly when an
\* odd number of calls has been made.
InitPlan == Constructed(MaxPlanCalls)

\* Step 1 of the handler: m_client->setInspectionTargets(...).
PlanRequestedTargets ==
    /\ Len(calls) % 2 = 0
    /\ DispatchTracked("setInspectionTargets", NoFile)

\* Step 2 of the handler: m_client->planInspection(...), once step 1 has
\* returned.
PlanRequestedPlan ==
    /\ Len(calls) % 2 = 1
    /\ DispatchTracked("planInspection", NoFile)

NextPlan ==
    \/ PlanRequestedTargets
    \/ PlanRequestedPlan
    \/ RegisterWorker
    \/ \E id \in 1..Len(calls) : WorkerRun(id)

SpecPlan == InitPlan /\ [][NextPlan]_vars

\* ------------------------------------------------------------------ claims
\* The notifications a producer has posted, in posting order.
NotesFrom(src) == SelectSeq(posted, LAMBDA n : n.src = src)

\* A terminal outcome of a one-shot call: every notification of the call but
\* the upload's progress.
TerminalNotes(id) ==
    SelectSeq(NotesFrom(CallSrc(id)), LAMBDA n : n.sig # "uploadCadProgress")

CallIds == 1..Len(calls)

\* A call dispatched without a session started no thread and made no network
\* attempt.
NoWorkFor(id) == calls[id].thread = "none" /\ ~calls[id].net

\* The call's notifications are exactly one outcome of its operation's
\* completion signal, with Unavailable and the zero payload.
UnavailableOutcome(id) ==
    /\ Len(NotesFrom(CallSrc(id))) = 1
    /\ LET n == NotesFrom(CallSrc(id))[1] IN
         /\ n.sig = FinishedSignal(calls[id].op)
         /\ n.code = "Unavailable"
         /\ n.payload = "zero"

Finished(id) == calls[id].pc \in {"done", "nosession"}

\* C2: every one-shot invocation posts exactly one terminal outcome: never
\* more than one, and one once the invocation has run to its end (no session,
\* application success or error, transport failure, unopenable file, failed
\* stream write, completed upload).
C2_ExactlyOneOutcome ==
    \A id \in CallIds :
        /\ Len(TerminalNotes(id)) <= 1
        /\ Finished(id) <=> Len(TerminalNotes(id)) = 1

\* C2 witness: an upload ended by a failed stream write and a unary call ended
\* by a transport failure have both posted their outcome.
C2_Witness ==
    \E i, j \in CallIds :
        /\ calls[i].op = UploadOp /\ calls[i].pc = "done"
        /\ Len(TerminalNotes(i)) = 1
        /\ TerminalNotes(i)[1].code = "Internal" /\ calls[i].chunkIndex = 1
        /\ calls[j].op \in TrackedUnaryOps \cup ControlOps /\ calls[j].pc = "done"
        /\ Len(TerminalNotes(j)) = 1
        /\ TerminalNotes(j)[1].msg # <<>>

\* The progress percentages an upload has posted, in posting order.
ProgressOf(id) ==
    LET ps == SelectSeq(NotesFrom(CallSrc(id)), LAMBDA n : n.sig = "uploadCadProgress")
    IN  [i \in 1..Len(ps) |-> ps[i].n]

\* C10: the progress percentages one upload posts are non-decreasing and no
\* two consecutive ones are equal.
C10_ProgressMonotone ==
    \A id \in CallIds :
        \A i \in 1..(Len(ProgressOf(id)) - 1) :
            /\ ProgressOf(id)[i] <= ProgressOf(id)[i + 1]
            /\ ProgressOf(id)[i] # ProgressOf(id)[i + 1]

\* C10 witness: an upload wrote four chunks, one of them after a short read
\* that did not change the percentage, and posted 43, 87, 100.
C10_Witness ==
    \E id \in CallIds :
        /\ calls[id].chunkIndex = 4
        /\ ProgressOf(id) = <<43, 87, 100>>

\* --- disconnect
CallRunning(id) == calls[id].thread # "none" /\ calls[id].pc # "done"

SubRunning(k, g) == subs[k][g].pc # "done"

\* disconnectFromGateway has returned and no session has been installed
\* since: the session is null and the calling thread is back in its event
\* loop or, inside connectToGateway, past the call of disconnectFromGateway.
\* (Without a session no slot starts a thread, so every thread there is was
\* started before.)
DisconnectReturned == m_stub = 0 /\ caller.pc \in {"idle", "cn_set"}

\* C3 as stated: after disconnectFromGateway has returned, no execution unit
\* started by an earlier one-shot call (pause, resume and stop included) or by
\* an earlier subscription is still running, and isConnected() is false.
C3_DisconnectDrainsEverything ==
    DisconnectReturned =>
        /\ \A id \in CallIds : ~CallRunning(id)
        /\ \A k \in KindSet : \A g \in 1..Len(subs[k]) : ~SubRunning(k, g)
        /\ ~m_connected

\* --- subscriptions
SubIds(k) == 1..Len(subs[k])

\* Whether the notification is one that a streaming thread of the kind posted.
FromKind(n, k) == n.src.t = "sub" /\ n.src.k = k

\* C4: of each stream kind at most one streaming thread is running: every
\* generation but the latest has ended, on a cancelled context; and in the
\* queue every notification of an earlier generation of a kind precedes every
\* notification of a later one.
C4_OneUnitPerKind ==
    \A k \in KindSet :
        /\ Cardinality({g \in SubIds(k) : SubRunning(k, g)}) <= 1
        /\ \A g \in SubIds(k) :
             g < Len(subs[k]) =>
                 /\ ~SubRunning(k, g)
                 /\ subs[k][g].ctx # 0 => ctxs[k][subs[k][g].ctx]
        /\ \A i, j \in 1..Len(posted) :
             i < j /\ FromKind(posted[i], k) /\ FromKind(posted[j], k)
                 => posted[i].src.id <= posted[j].src.id

\* C4 witness: a state subscription that had posted an item was replaced, and
\* its successor has posted an item too.
C4_Witness ==
    /\ Len(subs["sysState"]) = 2
    /\ subs["sysState"][1].recv >= 1
    /\ subs["sysState"][2].recv >= 1

\* The session is cleared by disconnectFromGateway between these positions.
PastSubscriptionJoins == {"dc_stopmon", "dc_joinmon", "dc_take", "dc_joinw"}

\* C5: while disconnectFromGateway is between stopSubscriptions and the
\* clearing of the session, the three streaming threads have been cancelled
\* and joined; and a streaming thread that is running holds the stub of the
\* session that is installed: it never runs with the session cleared or
\* replaced.
C5_SessionOutlivesSubscriptions ==
    /\ caller.pc \in PastSubscriptionJoins =>
           \A k \in KindSet :
               /\ m_subThread[k] = 0
               /\ \A g \in SubIds(k) : ~SubRunning(k, g)
               /\ m_subCtx[k] # 0 => ctxs[k][m_subCtx[k]]
    /\ \A k \in KindSet : \A g \in SubIds(k) :
           SubRunning(k, g) => StubValid(subs[k][g].stub)

\* C5 witness: the session has been cleared after a subscription that was
\* receiving items was cancelled by the disconnect.
C5_Witness ==
    /\ m_stub = 0
    /\ caller.pc = "idle"
    /\ \E k \in KindSet : \E g \in SubIds(k) :
         /\ subs[k][g].recv >= 1
         /\ subs[k][g].byClient
         /\ ~SubRunning(k, g)

\* The notifications of a streaming thread that are not items.
SubTerminalNotes(k, g) ==
    SelectSeq(NotesFrom(SubSrc(k, g)),
              LAMBDA n : n.sig \in {"errorOccurred", "mediaDownloaded"})

SubErrors(k, g) ==
    SelectSeq(NotesFrom(SubSrc(k, g)), LAMBDA n : n.sig = "errorOccurred")

\* The thread opened its stream and has ended.
StreamOver(k, g) == subs[k][g].pc = "done" /\ subs[k][g].ctx # 0

\* C6 as stated: a stream that ended because the client cancelled it has no
\* error notification; a stream that ended with any other status but success
\* has exactly one errorOccurred.
C6_OnlyClientCancelSilent ==
    \A k \in KindSet : \A g \in SubIds(k) :
        StreamOver(k, g) =>
            IF subs[k][g].byClient
            THEN Len(SubErrors(k, g)) = 0
            ELSE subs[k][g].st.code # "OK" => Len(SubErrors(k, g)) = 1

\* C7 as stated: every subscription whose stream ended for another reason
\* than cancellation, an orderly close by the server included, has posted
\* exactly one terminal notification, after all of its items.
C7_TerminalOnEveryEnd ==
    \A k \in KindSet : \A g \in SubIds(k) :
        StreamOver(k, g) /\ subs[k][g].st.code # "CANCELLED" =>
            /\ Len(SubTerminalNotes(k, g)) = 1
            /\ NotesFrom(SubSrc(k, g))[Len(NotesFrom(SubSrc(k, g)))].sig
                   \in {"errorOccurred", "mediaDownloaded"}

\* What a streaming thread has posted besides items once its stream ended
\* with status st.
ExpectedTerminal(k, st) ==
    IF st.code = "CANCELLED" THEN <<>>
    ELSE IF st.code = "OK"
         THEN IF k = "download" THEN <<"mediaDownloaded">> ELSE <<>>
         ELSE <<"errorOccurred">>

\* C7 amended: a subscription whose stream ended with a status other than OK
\* and CANCELLED has posted exactly one terminal notification, errorOccurred,
\* after all of its items; a download whose stream ended with OK has posted
\* exactly one, mediaDownloaded; a state or event stream that the server
\* closed orderly (OK) and any stream that ended with CANCELLED have posted
\* no terminal notification; and a thread that has not ended has posted none.
C7_TerminalByStatus ==
    \A k \in KindSet : \A g \in SubIds(k) :
        LET ns == NotesFrom(SubSrc(k, g))
            ts == SubTerminalNotes(k, g)
        IN  IF StreamOver(k, g)
            THEN /\ [i \in 1..Len(ts) |-> ts[i].sig] = ExpectedTerminal(k, subs[k][g].st)
                 /\ Len(ts) = 1 => ns[Len(ns)] = ts[1]
            ELSE Len(ts) = 0

\* C7 witness: a state stream failed after two items and posted its error; an
\* event stream was closed by the server and posted nothing after its items.
C7_Witness ==
    /\ \E g \in SubIds("sysState") :
         /\ StreamOver("sysState", g)
         /\ subs["sysState"][g].st.code = "UNAVAILABLE"
         /\ Len(NotesFrom(SubSrc("sysState", g))) = 3
    /\ \E g \in SubIds("events") :
         /\ StreamOver("events", g)
         /\ subs["events"][g].st.code = "OK"
         /\ ~subs["events"][g].byClient
         /\ subs["events"][g].recv >= 1

RECURSIVE Concat(_)
\* The concatenation of a sequence of chunks.
Concat(chunks) ==
    IF chunks = <<>> THEN <<>> ELSE Head(chunks) \o Concat(Tail(chunks))

\* C8: a download posts nothing per chunk; it posts mediaDownloaded at most
\* once, only when its stream has ended with status OK, with the
\* concatenation of the received chunks in receipt order as payload; when the
\* stream was cancelled or failed it posts no payload.
C8_DownloadWholeOrNothing ==
    \A g \in SubIds("download") :
        LET u  == subs["download"][g]
            ns == NotesFrom(SubSrc("download", g))
            ms == SelectSeq(ns, LAMBDA n : n.sig = "mediaDownloaded")
        IN  /\ \A i \in 1..Len(ns) : ns[i].sig \in {"mediaDownloaded", "errorOccurred"}
            /\ u.pc # "done" => Len(ns) = 0
            /\ Len(ms) <= 1
            /\ Len(ms) = 1 => u.st.code = "OK" /\ ms[1].data = Concat(u.chunks)
            /\ (u.byClient \/ u.st.code # "OK") => Len(ms) = 0

\* C8 witness: a download of two chunks has completed and delivered them.
C8_Witness ==
    \E g \in SubIds("download") :
        /\ subs["download"][g].recv = 2
        /\ StreamOver("download", g)
        /\ Len(SubTerminalNotes("download", g)) = 1
        /\ SubTerminalNotes("download", g)[1].data = <<1, 2, 2>>

\* The numbers of the stream's items among the notifications of seq, in order.
ItemNumbers(seq, k, g) ==
    LET is == SelectSeq(seq, LAMBDA n : n.src = SubSrc(k, g) /\ n.sig = ItemSignal(k))
    IN  [i \in 1..Len(is) |-> is[i].n]

\* C9: the items of each state or event stream reach the consumer in receipt
\* order: what has been processed or is queued is items 1..recv of the stream,
\* each once and in order, and what the consumer has processed is a prefix of
\* it, whatever other producers have posted in between.
C9_ItemsInReceiptOrder ==
    \A k \in ItemKinds : \A g \in SubIds(k) :
        /\ ItemNumbers(posted, k, g) = [i \in 1..subs[k][g].recv |-> i]
        /\ ItemNumbers(delivered, k, g)
               = [i \in 1..Len(ItemNumbers(delivered, k, g)) |-> i]

\* C9 witness: the consumer has processed both items of a state stream and,
\* between them, a notification of another producer.
C9_Witness ==
    \E g \in SubIds("sysState") :
        /\ ItemNumbers(delivered, "sysState", g) = <<1, 2>>
        /\ \E i, j, l \in 1..Len(delivered) :
             /\ i < j /\ j < l
             /\ delivered[i].src = SubSrc("sysState", g)
             /\ delivered[l].src = SubSrc("sysState", g)
             /\ delivered[j].src # SubSrc("sysState", g)

\* --- connection
MonitorsRunning == {m \in 1..Len(monitors) : monitors[m].pc # "done"}

\* What disconnectFromGateway leaves behind: no session, no streaming thread,
\* no monitor, no tracked worker.
TornDown ==
    /\ m_stub = 0 /\ m_channel = 0
    /\ \A k \in KindSet : m_subThread[k] = 0 /\ \A g \in SubIds(k) : ~SubRunning(k, g)
    /\ MonitorsRunning = {} /\ m_connMonitorThread = 0
    /\ m_workers = <<>>
    /\ \A id \in CallIds : calls[id].thread # "joinable"

\* C11, in every state: at most one monitor thread is running, and it is the
\* one the handle owns; the session is null or the one made last; when
\* connectToGateway installs the session the teardown is complete, and when
\* it starts the monitor the session for its address is installed and no
\* monitor is running.
C11_State ==
    /\ Cardinality(MonitorsRunning) <= 1
    /\ \A m \in MonitorsRunning : m_connMonitorThread = m
    /\ m_stub = m_channel /\ m_stub \in {0, sessions}
    /\ caller.pc = "cn_set" => TornDown
    /\ caller.pc = "cn_monitor" =>
           /\ m_stub = sessions /\ m_stub # 0
           /\ m_address = caller.addr
           /\ MonitorsRunning = {}

\* C11, at the return of connectToGateway(a): the address is a, the session
\* is installed and its monitor is the one running.
C11_Return ==
    caller.op = "connect" /\ caller'.pc = "idle" =>
        /\ m_address' = caller.addr
        /\ m_stub' = sessions' /\ m_stub' # 0
        /\ crashed' \/ MonitorsRunning' = {Len(monitors')}

\* C11: after any sequence of connect and disconnect calls at most one
\* session and one monitor thread exist; connectToGateway(a) tears the
\* existing session down completely (streaming threads, monitor and tracked
\* workers joined), then installs the new session, then starts the monitor,
\* and when it returns currentAddress() is a.
C11_OneSessionOneMonitor == []C11_State /\ [][C11_Return]_vars

\* C11 witness: connectToGateway("backup:50051") has returned on a client
\* that had a session on another address, a running subscription and a
\* tracked worker.
C11_Witness ==
    /\ caller.pc = "idle"
    /\ sessions = 2
    /\ m_address = "backup:50051"
    /\ Len(monitors) = 2
    /\ \/ \E k \in KindSet : \E g \in SubIds(k) : subs[k][g].byClient
       \/ \E id \in CallIds : calls[id].thread = "joined"

\* connectionStateChanged(false) as disconnectFromGateway posts it.
DisconnectedNote ==
    Note("connectionStateChanged", ClientSrc, "none", <<>>, "false", 0, <<>>)

\* A step of the calling thread inside disconnectFromGateway (called by the
\* user, not by connectToGateway).
DisconnectStep ==
    /\ caller' # caller
    /\ caller.op = "disconnect" \/ caller'.op = "disconnect"

\* The step of disconnectFromGateway that exchanges the flag.
ExchangeStep == DisconnectStep /\ TeardownComplete

\* C12: disconnectFromGateway posts connectionStateChanged(false) if and only
\* if the liveness flag is true when it exchanges it, and posts nothing else;
\* run with no session it posts nothing and leaves session, address and flag
\* as they are (null, empty, false), so that a second disconnect after a
\* first changes neither the state nor the notifications.
C12_DisconnectIdempotent ==
    [][/\ ExchangeStep =>
            posted' = IF m_connected THEN Append(posted, DisconnectedNote) ELSE posted
       /\ DisconnectStep /\ ~ExchangeStep => posted' = posted
       /\ DisconnectStep /\ m_stub = 0 =>
            /\ posted' = posted
            /\ m_stub' = 0 /\ m_channel' = 0 /\ m_address' = "" /\ ~m_connected'
            /\ m_channel = 0 /\ m_address = "" /\ ~m_connected]_vars

\* C12 witness: a disconnect that found the flag true and posted the
\* notification has been followed by a second disconnect, which has returned
\* without posting another.
C12_Witness ==
    /\ caller.pc = "idle"
    /\ m_stub = 0
    /\ opsLeft = MaxConnOps - 2
    /\ sessions = 1
    /\ Len(SelectSeq(posted, LAMBDA n : n = DisconnectedNote)) = 1

\* The values of the connectionStateChanged notifications, in posting order.
LivenessValues ==
    LET cs == SelectSeq(posted, LAMBDA n : n.sig = "connectionStateChanged")
    IN  [i \in 1..Len(cs) |-> cs[i].payload]

\* C13: the monitor posts connectionStateChanged and nothing else, and only
\* the value that differs from the one it saw before, which it stores in the
\* liveness flag; the values posted by the monitors and by disconnect
\* alternate strictly, beginning with true; and while the calling thread is
\* in no slot the flag is the value posted last (false if none was posted).
C13_LivenessAlternates ==
    /\ \A i \in 1..Len(posted) :
           posted[i].src.t = "monitor" => posted[i].sig = "connectionStateChanged"
    /\ \A i \in 1..Len(LivenessValues) :
           LivenessValues[i] = IF i % 2 = 1 THEN "true" ELSE "false"
    /\ \A m \in MonitorsRunning : monitors[m].lastReady = m_connected
    /\ caller.pc = "idle" => m_connected = (Len(LivenessValues) % 2 = 1)

\* C13 witness: a monitor reported true, a disconnect reported false, and
\* after a reconnect the new monitor has reported true.
C13_Witness ==
    /\ LivenessValues = <<"true", "false", "true">>
    /\ \E i \in 1..Len(posted) : posted[i] = DisconnectedNote
    /\ Len(monitors) = 2

\* The calling thread is inside disconnectFromGateway, called by the user or
\* by connectToGateway.
InDisconnect == caller.pc \in {"ss_join"} \cup PastSubscriptionJoins /\ caller.op # "stopSubscriptions"

\* The step with which disconnectFromGateway returns.
DisconnectReturns == InDisconnect /\ ~InDisconnect'

\* C14: under fair scheduling, with one-shot calls that complete and
\* cancelled reads that return, every disconnectFromGateway that has been
\* entered returns, and when it returns the monitor thread has ended and has
\* been joined.
C14_DisconnectReturns ==
    /\ [](InDisconnect => <>~InDisconnect)
    /\ [][DisconnectReturns => MonitorsRunning = {} /\ m_connMonitorThread = 0]_vars

\* C14 witness: a disconnect has returned that had to wait for a streaming
\* thread blocked in a read, for the monitor and for a tracked worker.
C14_Witness ==
    /\ caller.pc = "idle"
    /\ m_stub = 0
    /\ Len(monitors) = 1
    /\ \/ \E k \in KindSet : \E g \in SubIds(k) : subs[k][g].byClient
       \/ \E id \in CallIds : calls[id].thread = "joined"

\* --- error folding
\* The domain error code named as the wire code the servers of the model
\* answer with.
SameNamed(wire) == IF wire = "OK" THEN "Ok" ELSE IF wire = "BUSY" THEN "Busy" ELSE "?"

\* The call was made and returned with a status that is not OK, or the
\* upload's stream broke under a write.
TransportFailed(id) ==
    \/ calls[id].how = "write"
    \/ calls[id].how = "rpc" /\ calls[id].st.code # "OK"

Completed(id) == calls[id].how = "rpc" /\ calls[id].st.code = "OK"

\* The call's outcome is its operation's completion signal with this Result.
OutcomeIs(id, code, message) ==
    /\ Len(TerminalNotes(id)) = 1
    /\ TerminalNotes(id)[1].sig = FinishedSignal(calls[id].op)
    /\ TerminalNotes(id)[1].code = code
    /\ TerminalNotes(id)[1].msg = message

C16_NoNetworkForUnopenableFile ==
    \A id \in CallIds :
        calls[id].how = "nofile" =>
            /\ OutcomeIs(id, "InvalidArgument", <<"Cannot open file: ">>)
            /\ ~calls[id].net
            /\ calls[id].chunkIndex = 0

\* The upload's notifications end with its outcome: nothing was posted after it.
OutcomeLast(id) ==
    LET ns == NotesFrom(CallSrc(id)) IN ns # <<>> /\ ns[Len(ns)] = TerminalNotes(id)[1]

\* C17 as stated: an upload has ended with a failure Result, never with
\* success, when its file could not be opened (InvalidArgument), when a read
\* returned no data before the end of the file, or when a stream write failed
\* (Internal, and nothing was written or posted after it).
C17_UploadFailuresReported ==
    \A id \in CallIds :
        calls[id].op = UploadOp /\ calls[id].pc = "done" =>
            /\ Len(TerminalNotes(id)) = 1
            /\ calls[id].how = "nofile" => TerminalNotes(id)[1].code = "InvalidArgument"
            /\ calls[id].readFailed => TerminalNotes(id)[1].code # "Ok"
            /\ calls[id].how = "write" =>
                   /\ TerminalNotes(id)[1].code = "Internal"
                   /\ OutcomeLast(id)

\* --- marshalling helpers
\* The enumerators of the domain enums.
ErrorCodes == {"Unspecified", "Ok", "InvalidArgument", "NotFound", "Timeout", "Busy",
               "Internal", "Unavailable", "Conflict"}
TaskPhases == {"Unspecified", "Idle", "Localizing", "Planning", "Executing", "Paused",
               "Completed", "Failed", "Stopped"}
InspectionEventTypes == {"Unspecified", "Info", "Warn", "Error", "Captured", "DefectFound"}

\* The domain enumerator named as a wire enumerator.
NamedAs(w) ==
    CASE w = "OK" -> "Ok"                [] w = "INVALID_ARGUMENT" -> "InvalidArgument"
      [] w = "NOT_FOUND" -> "NotFound"   [] w = "TIMEOUT" -> "Timeout"
      [] w = "BUSY" -> "Busy"            [] w = "INTERNAL" -> "Internal"
      [] w = "UNAVAILABLE" -> "Unavailable" [] w = "CONFLICT" -> "Conflict"
      [] w = "IDLE" -> "Idle"            [] w = "LOCALIZING" -> "Localizing"
      [] w = "PLANNING" -> "Planning"    [] w = "EXECUTING" -> "Executing"
      [] w = "PAUSED" -> "Paused"        [] w = "COMPLETED" -> "Completed"
      [] w = "FAILED" -> "Failed"        [] w = "STOPPED" -> "Stopped"
      [] w = "INFO" -> "Info"            [] w = "WARN" -> "Warn"
      [] w = "ERROR" -> "Error"          [] w = "CAPTURED" -> "Captured"
      [] w = "DEFECT_FOUND" -> "DefectFound"

KnownWire(kind) ==
    CASE kind = "error" -> WireErrorCodes
      [] kind = "phase" -> WireTaskPhases
      [] kind = "event" -> WireEventTypes

DomainEnum(kind) ==
    CASE kind = "error" -> ErrorCodes
      [] kind = "phase" -> TaskPhases
      [] kind = "event" -> InspectionEventTypes

Converted(kind, w) ==
    CASE kind = "error" -> fromProtoError(w)
      [] kind = "phase" -> fromProtoTaskPhase(w)
      [] kind = "event" -> fromProtoEventType(w)

EnumConverted == conv.kind \in {"error", "phase", "event"} /\ conv.domain # <<>>

\* C18: the conversions of error code, task phase and event type give every
\* known wire value its same-named domain value, give distinct known wire
\* values distinct domain values, give every other wire value Unspecified,
\* and always yield an enumerator of the domain enum.
C18_EnumConversions ==
    EnumConverted =>
        LET w == conv.wire[1]
            d == conv.domain[1]
        IN  /\ d \in DomainEnum(conv.kind)
            /\ w \in KnownWire(conv.kind) => d = NamedAs(w)
            /\ w \in KnownWire(conv.kind) =>
                   \A v \in KnownWire(conv.kind) \ {w} : Converted(conv.kind, v) # d
            /\ w \notin KnownWire(conv.kind) => d = "Unspecified"

C18_Witness ==
    /\ EnumConverted
    /\ conv.kind = "event"
    /\ conv.wire = <<"ERROR">>
    /\ conv.domain = <<"Error">>

\* QDateTime::toSecsSinceEpoch: the whole seconds of an instant (zero for a
\* null QDateTime), which is its wire form at second resolution.
toSecsSinceEpoch(dt) ==
    IF ~dt.valid THEN 0
    ELSE IF dt.msecs >= 0 THEN dt.msecs \div MSECS_PER_SEC
         ELSE -((-dt.msecs) \div MSECS_PER_SEC)

toTimestamp(dt) == [seconds |-> toSecsSinceEpoch(dt), nanos |-> 0]

TimeConverted == conv.kind = "time" /\ conv.domain # <<>>

HandlesUsedBy(th) ==
    IF th.pc \in {"sb_join", "sb_spawn", "ss_join"} THEN {Kinds[th.k]}
    ELSE IF th.pc = "dc_joinmon" THEN {"monitor"}
    ELSE {}

\* C20 as stated: whatever two threads calling the public slots do, no thread
\* handle is assigned or joined by one caller while the other is using it (so
\* no assignment meets a joinable handle either), at most one streaming thread
\* per kind is running, and no one-shot worker is running on a session that
\* disconnectFromGateway has cleared.
C20_AnyThreadSafe ==
    /\ ~crashed
    /\ HandlesUsedBy(caller) \cap HandlesUsedBy(parked) = {}
    /\ \A k \in KindSet : Cardinality({g \in SubIds(k) : SubRunning(k, g)}) <= 1
    /\ \A id \in CallIds : CallRunning(id) => StubValid(calls[id].stub)

\* --- stopSubscriptions
\* A step of the calling thread inside stopSubscriptions (called by the user).
StopSubscriptionsStep ==
    /\ caller' # caller
    /\ caller.op = "stopSubscriptions" \/ caller'.op = "stopSubscriptions"

BlockingOperations ==
    {"rpc", "read", "write", "writes_done", "finish", "read_file", "GetState", "sleep",
     "join_stream", "join_monitor", "join_worker"}

\* Reads and swaps of the session pointers, the address, the contexts and
\* the vector of tracked workers.
GuardedOperations ==
    {"read_stub", "read_channel", "read_address", "read_ctx", "TryCancel", "new_ctx",
     "move_workers", "reap", "push_back", "reset_session", "set_session"}

ContextOf(k, g) == IF subs[k][g].ctx # 0 THEN subs[k][g].ctx ELSE m_subCtx[k]

\* The step with which a streaming thread ends.
SubEnds(k, g) ==
    IF g <= Len(subs[k]) THEN subs[k][g].pc = "finish" /\ subs'[k][g].pc = "done" ELSE FALSE

PostsError == queue' # queue /\ queue'[Len(queue')].sig = "errorOccurred"

\* C23 as stated: a streaming thread that ends after its context was
\* cancelled, whenever the cancellation was requested, posts no error.
C23_CancelAtAnyMomentSilent ==
    [][\A k \in KindSet : \A g \in 1..MaxTeardownOps :
           SubEnds(k, g) => (Cancelled(k, subs[k][g].ctx) => ~PostsError)]_vars

\* The step with which the join of a subscribing slot returns.
SubscribeJoinReturns == caller.pc = "sb_join" /\ caller'.pc # "sb_join"

\* C23 amended: a streaming thread is started only once its context exists;
\* when the context is cancelled while the stream has not ended (before it is
\* opened included) the thread posts no error; and under fair scheduling the
\* join of the slot that cancelled it returns, which it does only when the
\* thread has ended.
C23_CancelBeforeStreamEndSilent ==
    /\ [](\A k \in KindSet : \A g \in SubIds(k) :
            /\ subs[k][g].pc = "start" => m_subCtx[k] # 0
            /\ subs[k][g].byClient => Len(SubErrors(k, g)) = 0)
    /\ [][SubscribeJoinReturns =>
            \A g \in SubIds(Kinds[caller.k]) : ~SubRunning(Kinds[caller.k], g)]_vars
    /\ [](caller.pc = "sb_join" => <>(caller.pc # "sb_join"))

\* C23 witness: a subscription was cancelled before its thread had opened the
\* stream, and the slot that cancelled it waits in its join.
C23_Witness ==
    /\ caller.pc = "sb_join"
    /\ \E k \in KindSet : \E g \in SubIds(k) :
         /\ subs[k][g].pc = "start"
         /\ m_subThread[k] = g
         /\ Cancelled(k, m_subCtx[k])

\* --- the tracked workers
\* The step that registers a new worker in m_workers.
Registers == caller.pc = "register" /\ caller'.pc # "register"

\* The calls whose worker thread has not finished.
InFlight == {id \in CallIds : CallRunning(id)}

\* C24 as stated: when a tracked call registers its worker, every tracked
\* worker that has finished is removed first: afterwards m_workers holds no
\* finished worker besides, at most, the new one, and no more entries than
\* calls in flight plus one.
C24_FinishedWorkersReaped ==
    [][Registers =>
         /\ \A i \in 1..(Len(m_workers') - 1) : calls[m_workers'[i]].pc # "done"
         /\ Len(m_workers') <= Cardinality(InFlight) + 1]_vars

\* --- pause, resume, stop
\* The control calls that were dispatched on a session.
ControlCalls == {id \in CallIds : calls[id].op \in ControlOps /\ calls[id].thread = "detached"}

\* C25 as stated: a pause, resume or stop call dispatched on a session posts
\* its one controlTaskFinished also when disconnectFromGateway runs while the
\* call is in flight: it has never posted two, and while it has posted none
\* its worker is still able to run and post it.
C25_ControlOutcomeDespiteDisconnect ==
    \A id \in ControlCalls :
        /\ Len(TerminalNotes(id)) <= 1
        /\ Len(TerminalNotes(id)) = 0 => ~crashed

\* --- upload chunks
UploadIds == {id \in CallIds : calls[id].op = UploadOp}

\* C26: the chunks an upload has handed to the stream carry the indices 0, 1,
\* 2, ... in write order, all with the same upload id and file name; once the
\* whole file has been read the last chunk carries eof = true and every other
\* chunk eof = false.
C26_ChunksNumberedAndFlagged ==
    \A id \in UploadIds :
        LET w == calls[id].written IN
        /\ \A i \in 1..Len(w) :
             /\ w[i].chunk_index = i - 1
             /\ w[i].upload_id = w[1].upload_id
             /\ w[i].filename = w[1].filename
        /\ Len(w) = calls[id].chunkIndex
        /\ w # <<>> /\ calls[id].bytesSent = calls[id].totalBytes =>
             \A i \in 1..Len(w) : w[i].eof <=> i = Len(w)

\* C26 witness: a file of several chunks has been read to its end and
\* uploaded, one of the reads having been short.
C26_Witness ==
    \E id \in UploadIds :
        /\ calls[id].pc = "done"
        /\ calls[id].how = "rpc"
        /\ calls[id].bytesSent = calls[id].totalBytes
        /\ Len(calls[id].written) >= 3
        /\ calls[id].shortReads = 1

\* --- plan requests
\* The setInspectionTargets call of the plan request a planInspection call
\* belongs to: the call the handler made just before it.
TargetsCallOf(id) == id - 1

\* C27: when the PlanInspection remote call of a plan request has reached the
\* gateway, the SetInspectionTargets remote call of the same request has
\* reached it already.
C27_TargetsReachGatewayFirst ==
    \A id \in CallIds :
        calls[id].op = "planInspection" /\ calls[id].net =>
            calls[TargetsCallOf(id)].net

\* --- handles and tokens
\* Every streaming thread of the kind has ended and the kind's handle is not
\* joinable.
SubsJoined(k) ==
    /\ m_subThread[k] = 0
    /\ \A g \in 1..Len(subs[k]) : subs[k][g].pc = "done"

\* Every monitor thread has ended and the monitor's handle is not joinable.
MonitorJoined ==
    /\ m_connMonitorThread = 0
    /\ \A m \in 1..Len(monitors) : monitors[m].pc = "done"

\* The destructor's disconnectFromGateway returns.
DestructorReturns ==
    caller.op = "disconnect" /\ caller.pc # "idle" /\ caller'.pc = "idle"

\* A step that respects the handles and the tokens.
C28_Step ==
    /\ ~crashed'
    /\ \A k \in KindSet :
         /\ m_subCtx'[k] # m_subCtx[k] => SubsJoined(k)
         /\ m_subThread'[k] \notin {0, m_subThread[k]} => SubsJoined(k)
    /\ m_connMonitorThread' \notin {0, m_connMonitorThread} => MonitorJoined
    /\ DestructorReturns =>
         /\ \A k \in KindSet : SubsJoined(k)'
         /\ MonitorJoined'
         /\ m_workers' = <<>>

\* C28: with one calling thread, a kind's context is replaced and a kind's
\* or the monitor's thread handle is assigned a new thread only when every
\* thread of that kind (every monitor thread) has ended and the handle has
\* been joined, no assignment hits a joinable handle, and when a disconnect
\* returns (the destructor is one) no handle is joinable and no streaming or
\* monitor thread is left running.
C28_HandlesJoinedBeforeReuse == [][C28_Step]_vars

\* C28 witness: on the constructor's session a subscription was replaced by
\* a second one of its kind, whose context and handle took the first one's
\* place, and a disconnect has then returned.
C28_Witness ==
    /\ caller.pc = "idle"
    /\ m_stub = 0
    /\ Len(monitors) >= 1
    /\ \E k \in KindSet :
         /\ Len(subs[k]) >= 2
         /\ subs[k][1].byClient
         /\ subs[k][2].byClient

\* --- upload progress
\* Every write of the upload succeeded and the whole of its non-empty file
\* has been read.
ReadAndWritten(id) ==
    /\ calls[id].totalBytes > 0
    /\ calls[id].bytesSent = calls[id].totalBytes
    /\ calls[id].how # "write"

\* C29: among the notifications of one upload no uploadCadProgress follows an
\* uploadCadFinished; and once a non-empty file has been read to its end with
\* every write successful, the last percentage posted is 100.
C29_ProgressBeforeFinished ==
    \A id \in UploadIds :
        LET ns == NotesFrom(CallSrc(id)) IN
        /\ \A i, j \in 1..Len(ns) :
             i < j /\ ns[i].sig = "uploadCadFinished" => ns[j].sig # "uploadCadProgress"
        /\ ReadAndWritten(id) =>
             /\ ProgressOf(id) # <<>>
             /\ ProgressOf(id)[Len(ProgressOf(id))] = 100

\* C29 witness: an upload of a file of several chunks, all written, has
\* posted at least three percentages and then its one uploadCadFinished.
C29_Witness ==
    \E id \in UploadIds :
        /\ calls[id].pc = "done"
        /\ ReadAndWritten(id)
        /\ Len(ProgressOf(id)) >= 3
        /\ Len(TerminalNotes(id)) = 1

\* --- subscriptions without a session
\* errorOccurred as a subscription slot posts it when it finds no stub.
NotConnectedNote(kind) ==
    Note("errorOccurred", ClientSrc, "none", <<SubscribeName(kind), ": not connected">>,
         "none", 0, <<>>)

\* The calling thread takes the step after the joins of a subscription slot
\* and finds no stub.
FindsNoStub == caller.pc = "sb_ctx" /\ m_stub = 0 /\ caller' # caller

\* C30: a subscription slot that finds no session returns after posting one
\* errorOccurred and nothing else, and starts no thread; and while there is
\* no session no streaming thread of any kind is running, so no item and no
\* payload can follow.
C30_NoSessionSubscribe ==
    /\ [](m_stub = 0 => \A k \in KindSet : \A g \in SubIds(k) : ~SubRunning(k, g))
    /\ [][FindsNoStub =>
            /\ caller' = Idle
            /\ subs' = subs
            /\ m_subThread' = m_subThread
            /\ posted' = Append(posted, NotConnectedNote(Kinds[caller.k]))]_vars

\* C30 witness: after a disconnect of the constructor's session, a
\* downloadMedia has returned with its errorOccurred posted.
C30_Witness ==
    /\ caller.pc = "idle"
    /\ m_stub = 0
    /\ sessions = 1
    /\ posted # <<>>
    /\ posted[Len(posted)] = NotConnectedNote("download")

====
